---- MODULE Spec2Model ----
(***************************************************************************)
(* State-machine model of the AIBerry API server: the query pipeline of    *)
(* src/main.py, the Redis-backed conversation memory of                    *)
(* services/memory_service.py, the guardrail validators of                 *)
(* services/guardrails_service.py, the vector store of                     *)
(* services/vector_service.py, the document upload of                      *)
(* services/document_service.py and the LLM call of                        *)
(* services/llm_service.py.                                                *)
(*                                                                         *)
(* Every `await` of the source is one atomic step; between two steps of    *)
(* one coroutine any step of another coroutine may run.                    *)
(***************************************************************************)
EXTENDS Integers, Sequences, FiniteSets, TLC

(***************************************************************************)
(* Bounds of the model.                                                    *)
(***************************************************************************)
\* message pairs and summaries created by direct calls in one behaviour
MaxAppends == 3
\* message pairs created by requests in one behaviour
MaxQueryAppends == 2
\* Settings.max_short_term_messages (10 in config.py), scaled down
max_short_term_messages == 2
\* Settings.short_term_memory_ttl (3600 s), in clock ticks
short_term_memory_ttl == 2
\* Settings.long_term_memory_ttl (2592000 s), in clock ticks
long_term_memory_ttl == 3
\* calls of uuid.uuid4(), i.e. uploads that reach the splitter
MaxUploads == 2
\* exchanges in a conversation history handed to generate_response
MaxExchanges == 3

(***************************************************************************)
(* Program constants.  Scores and distances are kept as integers, in       *)
(* tenths: 0.7 is 7, a cosine distance of 2.0 is 20.                       *)
(***************************************************************************)
max_input_length == 2000
max_output_length == 4000
similarity_threshold == 7
max_search_results == 10
\* config.py: largest upload, in megabytes
max_file_size_mb == 10
\* the literal k of the call in main.query
query_k == 5
\* conversation_history[-5:] in LLMService.generate_response
history_window == 5

guardrails_enabled == TRUE

None == "None"

Sessions == {"s1", "s2"}
\* handler slots: coroutines that may be in flight at once
Tasks == {"t1", "t2"}

(***************************************************************************)
(* Sequence helpers.                                                       *)
(***************************************************************************)
Min(a, b) == IF a < b THEN a ELSE b
Max(a, b) == IF a > b THEN a ELSE b

\* Python's reversed(xs)
Reversed(xs) == [i \in 1..Len(xs) |-> xs[Len(xs) + 1 - i]]

\* Python's xs[-n:] for n > 0
LastN(xs, n) == SubSeq(xs, Max(1, Len(xs) - n + 1), Len(xs))

RECURSIVE Flatten(_)
Flatten(xss) == IF xss = << >> THEN << >> ELSE Head(xss) \o Flatten(Tail(xss))

(***************************************************************************)
(* Texts.  A text is a string; what the regular expressions and len() of   *)
(* the validators find in it is tabulated here.                            *)
(***************************************************************************)
blocked_patterns == <<"exploit", "credential", "injection", "bypass">>
pii_patterns == <<"SSN", "CC", "EMAIL">>

TextInfo ==
    ("hello" :> [len |-> 5, stripped |-> "hello", blocked |-> {}, pii |-> {}])
 @@ ("my password is 12345" :>
        [len |-> 20, stripped |-> "my password is 12345",
         blocked |-> {"credential"}, pii |-> {}])
 @@ ("mail bob@x.io" :>
        [len |-> 13, stripped |-> "mail bob@x.io", blocked |-> {}, pii |-> {"EMAIL"}])
 @@ ("   " :> [len |-> 3, stripped |-> "", blocked |-> {}, pii |-> {}])
 @@ ("LONG_INPUT" :>
        [len |-> 2001, stripped |-> "LONG_INPUT", blocked |-> {}, pii |-> {}])
 @@ ("Sure." :> [len |-> 5, stripped |-> "Sure.", blocked |-> {}, pii |-> {}])
 @@ ("use this exploit" :>
        [len |-> 16, stripped |-> "use this exploit",
         blocked |-> {"exploit"}, pii |-> {}])
 @@ ("ssn 123-45-6789" :>
        [len |-> 15, stripped |-> "ssn 123-45-6789", blocked |-> {}, pii |-> {"SSN"}])
 @@ ("LONG_OUTPUT" :>
        [len |-> 4001, stripped |-> "LONG_OUTPUT", blocked |-> {}, pii |-> {}])
 @@ ("FULL_INPUT" :>
        [len |-> 2000, stripped |-> "FULL_INPUT", blocked |-> {}, pii |-> {}])
 @@ ("LONG_INPUT bypass" :>
        [len |-> 2008, stripped |-> "LONG_INPUT bypass",
         blocked |-> {"bypass"}, pii |-> {}])
 @@ ("bypass for bob@x.io" :>
        [len |-> 19, stripped |-> "bypass for bob@x.io",
         blocked |-> {"bypass"}, pii |-> {"EMAIL"}])
 @@ ("mail bob@x.io ssn 123-45-6789" :>
        [len |-> 29, stripped |-> "mail bob@x.io ssn 123-45-6789",
         blocked |-> {}, pii |-> {"SSN", "EMAIL"}])
 @@ ("" :> [len |-> 0, stripped |-> "", blocked |-> {}, pii |-> {}])
 @@ ("LONG_BLANK" :> [len |-> 2001, stripped |-> "", blocked |-> {}, pii |-> {}])

\* len(text)
TextLen(text) == TextInfo[text].len
\* text.strip()
Strip(text) == TextInfo[text].stripped
\* re.search(pattern, text) for a blocked pattern
SearchBlocked(pattern, text) == pattern \in TextInfo[text].blocked
\* re.search(pattern, text, flags) for a PII pattern
SearchPii(pii_type, text) == pii_type \in TextInfo[text].pii

\* the texts a caller submits and the texts the LLM produces
QueryTexts == {"hello", "my password is 12345"}
OutputTexts == {"Sure.", "ssn 123-45-6789"}

(***************************************************************************)
(* GuardrailsService.  self.rails stays None: main.lifespan never calls    *)
(* GuardrailsService.initialize, so the NeMo branch is skipped and the     *)
(* regex checks decide.  `fault` is an exception raised inside the try     *)
(* block.  A verdict is a Python dict: a record with the keys set.         *)
(***************************************************************************)
MsgInputTooLong == "Input exceeds maximum length of 2000 characters"
MsgInputEmpty == "Input cannot be empty"
MsgInputUnsafe == "Input contains potentially unsafe content. Please rephrase your query."
MsgOutputTooLong == "Response too long. Please try a more specific query."
MsgOutputUnsafe == "I cannot provide that information. Please ask a different question."
MsgOutputPii == "I apologize, but I cannot provide that response for privacy reasons."

PiiFound(text) == SelectSeq(pii_patterns, LAMBDA p : SearchPii(p, text))

\* validate_input whose except branch (lines 181-183) blocks
validate_input_fail_closed(text, fault) ==
    IF ~guardrails_enabled THEN [passed |-> TRUE]
    ELSE IF fault THEN [passed |-> FALSE, message |-> MsgInputUnsafe]
    ELSE IF TextLen(text) > max_input_length
        THEN [passed |-> FALSE, message |-> MsgInputTooLong]
    ELSE IF Strip(text) = ""
        THEN [passed |-> FALSE, message |-> MsgInputEmpty]
    ELSE IF \E i \in 1..Len(blocked_patterns) : SearchBlocked(blocked_patterns[i], text)
        THEN [passed |-> FALSE, message |-> MsgInputUnsafe]
    ELSE IF PiiFound(text) # << >>
        THEN [passed |-> TRUE,
              warning |-> <<"Detected potential PII", PiiFound(text)>>,
              pii_types |-> PiiFound(text)]
    ELSE [passed |-> TRUE]

\* validate_input with the length check of line 120 written as >=
validate_input_inclusive(text, fault) ==
    IF ~guardrails_enabled THEN [passed |-> TRUE]
    ELSE IF fault THEN [passed |-> TRUE]
    ELSE IF TextLen(text) >= max_input_length
        THEN [passed |-> FALSE, message |-> MsgInputTooLong]
    ELSE IF Strip(text) = ""
        THEN [passed |-> FALSE, message |-> MsgInputEmpty]
    ELSE IF \E i \in 1..Len(blocked_patterns) : SearchBlocked(blocked_patterns[i], text)
        THEN [passed |-> FALSE, message |-> MsgInputUnsafe]
    ELSE IF PiiFound(text) # << >>
        THEN [passed |-> TRUE,
              warning |-> <<"Detected potential PII", PiiFound(text)>>,
              pii_types |-> PiiFound(text)]
    ELSE [passed |-> TRUE]

\* validate_input with the emptiness check ahead of the length check
validate_input_empty_first(text, fault) ==
    IF ~guardrails_enabled THEN [passed |-> TRUE]
    ELSE IF fault THEN [passed |-> TRUE]
    ELSE IF Strip(text) = ""
        THEN [passed |-> FALSE, message |-> MsgInputEmpty]
    ELSE IF TextLen(text) > max_input_length
        THEN [passed |-> FALSE, message |-> MsgInputTooLong]
    ELSE IF \E i \in 1..Len(blocked_patterns) : SearchBlocked(blocked_patterns[i], text)
        THEN [passed |-> FALSE, message |-> MsgInputUnsafe]
    ELSE IF PiiFound(text) # << >>
        THEN [passed |-> TRUE,
              warning |-> <<"Detected potential PII", PiiFound(text)>>,
              pii_types |-> PiiFound(text)]
    ELSE [passed |-> TRUE]

validate_input(text, fault) ==
    IF ~guardrails_enabled THEN [passed |-> TRUE]
    ELSE IF fault THEN [passed |-> TRUE]
    ELSE IF TextLen(text) > max_input_length
        THEN [passed |-> FALSE, message |-> MsgInputTooLong]
    ELSE IF Strip(text) = ""
        THEN [passed |-> FALSE, message |-> MsgInputEmpty]
    ELSE IF \E i \in 1..Len(blocked_patterns) : SearchBlocked(blocked_patterns[i], text)
        THEN [passed |-> FALSE, message |-> MsgInputUnsafe]
    ELSE IF PiiFound(text) # << >>
        THEN [passed |-> TRUE,
              warning |-> <<"Detected potential PII", PiiFound(text)>>,
              pii_types |-> PiiFound(text)]
    ELSE [passed |-> TRUE]

\* validate_output treating PII as validate_input does: a warning
validate_output_warning(text, fault) ==
    IF ~guardrails_enabled THEN [passed |-> TRUE]
    ELSE IF fault THEN [passed |-> TRUE]
    ELSE IF TextLen(text) > max_output_length
        THEN [passed |-> FALSE, message |-> MsgOutputTooLong]
    ELSE IF \E i \in 1..Len(blocked_patterns) : SearchBlocked(blocked_patterns[i], text)
        THEN [passed |-> FALSE, message |-> MsgOutputUnsafe]
    ELSE IF PiiFound(text) # << >>
        THEN [passed |-> TRUE,
              warning |-> <<"Detected potential PII", PiiFound(text)>>,
              pii_types |-> PiiFound(text)]
    ELSE [passed |-> TRUE]

validate_output(text, fault) ==
    IF ~guardrails_enabled THEN [passed |-> TRUE]
    ELSE IF fault THEN [passed |-> TRUE]
    ELSE IF TextLen(text) > max_output_length
        THEN [passed |-> FALSE, message |-> MsgOutputTooLong]
    ELSE IF \E i \in 1..Len(blocked_patterns) : SearchBlocked(blocked_patterns[i], text)
        THEN [passed |-> FALSE, message |-> MsgOutputUnsafe]
    ELSE IF PiiFound(text) # << >>
        THEN [passed |-> FALSE, message |-> MsgOutputPii]
    ELSE [passed |-> TRUE]

(***************************************************************************)
(* The Redis server behind MemoryService.  A database maps a key to its    *)
(* list and its remaining time to live (-1: no expiration).  A key exists  *)
(* iff its list is non-empty.                                              *)
(***************************************************************************)
NoKey == [list |-> << >>, ttl |-> -1]

\* a short-term key that leaves the session id out
StmKeyShared(session_id) == <<"stm", "s1">>
StmKey(session_id) == <<"stm", session_id>>
LtmKey(session_id) == <<"ltm", session_id>>
MemKeys == {StmKey(s) : s \in Sessions} \cup {LtmKey(s) : s \in Sessions}

\* LPUSH key value
LPush(db, key, value) == [db EXCEPT ![key].list = <<value>> \o @]

\* Redis list indices: a negative index counts from the end
RangeOf(list, start, stop) ==
    LET n == Len(list)
        lo == IF start < 0 THEN Max(n + start, 0) ELSE start
        hi == IF stop < 0 THEN n + stop ELSE Min(stop, n - 1)
    IN IF lo > hi THEN << >> ELSE SubSeq(list, lo + 1, hi + 1)

\* LRANGE key start stop
LRange(db, key, start, stop) == RangeOf(db[key].list, start, stop)

\* LTRIM key start stop (a list trimmed to nothing is a deleted key)
LTrim(db, key, start, stop) ==
    LET kept == RangeOf(db[key].list, start, stop)
    IN [db EXCEPT ![key] = IF kept = << >> THEN NoKey ELSE [@ EXCEPT !.list = kept]]

\* EXPIRE key seconds
Expire(db, key, seconds) ==
    IF db[key].list = << >> THEN db
    ELSE IF seconds <= 0 THEN [db EXCEPT ![key] = NoKey]
    ELSE [db EXCEPT ![key].ttl = seconds]

\* DEL key [key ...]
Del(db, keys) == [k \in DOMAIN db |-> IF k \in keys THEN NoKey ELSE db[k]]

\* one clock tick of a store that leaves a timed-out key in place until it is
\* swept
ElapseWithoutExpiry(db) ==
    [k \in DOMAIN db |->
        IF db[k].ttl >= 1 THEN [db[k] EXCEPT !.ttl = @ - 1] ELSE db[k]]

\* one clock tick of the server's own expiration
Elapse(db) ==
    [k \in DOMAIN db |->
        IF db[k].ttl = 1 THEN NoKey
        ELSE IF db[k].ttl > 1 THEN [db[k] EXCEPT !.ttl = @ - 1]
        ELSE db[k]]

(***************************************************************************)
(* The vector index behind VectorService and the embedding service.  An    *)
(* embedding is a point on a line and the cosine distance of two           *)
(* embeddings is their gap, in tenths.                                     *)
(***************************************************************************)
EmbeddingOf ==
    ("hello" :> 0) @@ ("my password is 12345" :> 2) @@ ("mail bob@x.io" :> 5)
 @@ ("   " :> 8) @@ ("LONG_INPUT" :> 9)
 @@ ("chunk near" :> 1) @@ ("chunk mid" :> 5) @@ ("chunk far" :> 12)

CosineDistance(a, b) == IF a > b THEN a - b ELSE b - a

DocKey(document_id, idx) == <<"doc", document_id, idx>>

\* document_service.py lines 80-92: the chunks of a text as Document objects
ChunkMetadata(filename, document_id, idx, total_chunks, file_type) ==
    [filename |-> filename, document_id |-> document_id, chunk_index |-> idx,
     total_chunks |-> total_chunks, file_type |-> file_type]

Documents(chunks, filename, document_id, file_type) ==
    [i \in 1..Len(chunks) |->
        [page_content |-> chunks[i],
         metadata |-> ChunkMetadata(filename, document_id, i - 1, Len(chunks),
                                    file_type)]]

\* vector_service.py lines 136-143: the JSON value stored for chunk idx; the
\* metadata member is the JSON text of the Document's metadata
ChunkData(doc, document_id, idx) ==
    [content |-> doc.page_content, filename |-> doc.metadata.filename,
     document_id |-> document_id, chunk_index |-> idx,
     embedding |-> EmbeddingOf[doc.page_content], metadata |-> doc.metadata]

\* the commands queued for documents[1..n], with the chunks numbered from 1
QueuedFromOne(documents, document_id, n) ==
    [i \in 1..n |-> [key |-> DocKey(document_id, i),
                     doc_data |-> ChunkData(documents[i], document_id, i)]]

\* the commands queued on the pipeline for documents[1..n]
Queued(documents, document_id, n) ==
    [i \in 1..n |-> [key |-> DocKey(document_id, i - 1),
                     doc_data |-> ChunkData(documents[i], document_id, i - 1)]]

\* the index once the queued JSON.SET commands `done` (a set of positions)
\* have been applied
Applied(idx, pipeline, done) ==
    LET keys == {pipeline[i].key : i \in done}
        value(key) == LET i == CHOOSE i \in done : pipeline[i].key = key
                      IN pipeline[i].doc_data
    IN [key \in DOMAIN idx \cup keys |->
           IF key \in keys THEN value(key) ELSE idx[key]]

\* index contents left by earlier uploads
IndexOneDocument ==
    Applied(<< >>,
            Queued(Documents(<<"chunk near", "chunk mid">>, "a.txt", "d1", ".txt"),
                   "d1", 2),
            1..2)
IndexTwoDocuments ==
    Applied(IndexOneDocument,
            Queued(Documents(<<"chunk far">>, "b.txt", "d2", ".txt"), "d2", 1),
            1..1)
InitialIndexes == {<< >>, IndexTwoDocuments}

(***************************************************************************)
(* Uploaded files.  What os.path.splitext, len(content), the text          *)
(* extractors and RecursiveCharacterTextSplitter (chunk_size 1000,         *)
(* chunk_overlap 200) find in a file is tabulated here.                    *)
(***************************************************************************)
allowed_extensions == <<".pdf", ".docx", ".txt">>
MegaByte == 1024 * 1024

FileInfo ==
    ("a.txt" :> [extension |-> ".txt", size |-> 2001, text |-> "LONG_INPUT"])
 @@ ("b.pdf" :> [extension |-> ".pdf", size |-> max_file_size_mb * MegaByte,
                 text |-> "hello"])
 @@ ("big.txt" :> [extension |-> ".txt", size |-> max_file_size_mb * MegaByte + 1,
                   text |-> "hello"])
 @@ ("blank.txt" :> [extension |-> ".txt", size |-> 3, text |-> "   "])
 @@ ("run.exe" :> [extension |-> ".exe", size |-> 5, text |-> "hello"])

\* text_splitter.split_text: a text of 2001 characters is cut at 1000
\* characters with 200 of overlap
split_text ==
    ("hello" :> <<"hello">>)
 @@ ("LONG_INPUT" :> <<"chunk near", "chunk mid", "chunk far">>)

\* str(uuid.uuid4()) after the calls that returned `issued`: a value no
\* earlier call returned
UuidPool == <<"u1", "u2", "u3", "u4">>
uuid4(issued) == UuidPool[Len(issued) + 1]

MsgFileType == "File type not supported. Allowed: .pdf, .docx, .txt"
MsgFileSize == "File size exceeds maximum of 10MB"
MsgNoText == "No text could be extracted from the document"
MsgPdf == "Failed to extract text from PDF: "
MsgDocx == "Failed to extract text from DOCX: "

\* MATCH of the SCAN command on the id part of a key: the id given to
\* delete_document is pasted into the pattern as it is, so '*' stands for any
\* run of characters, '?' for one character and '[..]' for one of a class;
\* an id without such a character matches itself only
GlobMatch(pattern, document_id) ==
    CASE pattern = "*" -> TRUE
      [] pattern = "d?" -> document_id \in {"d1", "d2", "d3"}
      [] pattern = "[du]1" -> document_id \in {"d1", "u1"}
      [] OTHER -> pattern = document_id

\* scan_iter(match=f"doc:{document_id}:*")
ScanDocument(idx, document_id) ==
    {key \in DOMAIN idx : GlobMatch(document_id, key[2])}
\* scan_iter(match="doc:*")
ScanAll(idx) == DOMAIN idx

\* vector_service.py lines 245-253: one more key counted in the dict
\* `documents`, kept as the list of its values in insertion order
Counted(documents, data) ==
    IF \E i \in 1..Len(documents) : documents[i].document_id = data.document_id
    THEN [i \in 1..Len(documents) |->
            IF documents[i].document_id = data.document_id
            THEN [documents[i] EXCEPT !.chunks = @ + 1]
            ELSE documents[i]]
    ELSE Append(documents, [document_id |-> data.document_id,
                            filename |-> data.filename, chunks |-> 1])

\* the reply of FT.SEARCH "*=>[KNN k @embedding $vec AS score]": the k nearest
\* stored chunks in ascending distance, with the returned fields
SearchDoc(idx, key, vec) ==
    [content |-> idx[key].content, filename |-> idx[key].filename,
     document_id |-> idx[key].document_id,
     score |-> CosineDistance(vec, idx[key].embedding)]

RECURSIVE SeqsOver(_, _)
SeqsOver(S, n) ==
    IF n = 0 THEN {<< >>}
    ELSE {<<x>> \o r : x \in S, r \in SeqsOver(S, n - 1)}

KnnResults(idx, vec, k) ==
    LET n == Min(k, Cardinality(DOMAIN idx))
        dist(key) == CosineDistance(vec, idx[key].embedding)
    IN {[i \in 1..n |-> SearchDoc(idx, keys[i], vec)] :
          keys \in {ks \in SeqsOver(DOMAIN idx, n) :
                      /\ \A i, j \in 1..n : i < j => ks[i] # ks[j]
                      /\ \A i, j \in 1..n : i < j => dist(ks[i]) <= dist(ks[j])
                      /\ \A key \in DOMAIN idx :
                            (\A i \in 1..n : ks[i] # key) =>
                                \A i \in 1..n : dist(ks[i]) <= dist(key)}}

\* an Optional[float]: << >> is None, <<x>> is the value x
NoThreshold == << >>
\* Python truth value of an Optional[float]
Truthy(opt) == opt # << >> /\ opt[1] # 0

\* lines 193-212 with the distance of the reply kept as the score
ProcessResultsKeepingDistance(docs, score_threshold) ==
    LET kept(doc) == ~(Truthy(score_threshold) /\ 10 - doc.score < score_threshold[1])
        document(doc) ==
            [page_content |-> doc.content,
             metadata |-> [filename |-> doc.filename,
                           document_id |-> doc.document_id,
                           score |-> doc.score]]
        picked == SelectSeq(docs, kept)
    IN [i \in 1..Len(picked) |-> document(picked[i])]

\* lines 193-212: convert distance to similarity, filter, wrap as Document
ProcessResults(docs, score_threshold) ==
    LET kept(doc) == ~(Truthy(score_threshold) /\ 10 - doc.score < score_threshold[1])
        document(doc) ==
            [page_content |-> doc.content,
             metadata |-> [filename |-> doc.filename,
                           document_id |-> doc.document_id,
                           score |-> 10 - doc.score]]
        picked == SelectSeq(docs, kept)
    IN [i \in 1..Len(picked) |-> document(picked[i])]

\* VectorService.similarity_search: `failed` is an exception of the
\* embedding call or of the index search, `docs` the reply of the search
similarity_search(docs, score_threshold, failed) ==
    IF failed THEN << >> ELSE ProcessResults(docs, score_threshold)

(***************************************************************************)
(* MemoryService reads.  `failed` is an exception of the store call.       *)
(***************************************************************************)
Turns(data) ==
    <<[role |-> "user", content |-> data.user, timestamp |-> data.timestamp],
      [role |-> "assistant", content |-> data.ai, timestamp |-> data.timestamp]>>

get_short_term_memory(db, session_id, failed) ==
    IF failed THEN << >>
    ELSE LET messages == Reversed(LRange(db, StmKey(session_id), 0, -1))
         IN Flatten([i \in 1..Len(messages) |-> Turns(messages[i])])

get_long_term_memory(db, session_id, failed) ==
    IF failed THEN << >>
    ELSE Reversed(LRange(db, LtmKey(session_id), 0, -1))

(***************************************************************************)
(* LLMService.generate_response: the prompt handed to the model.           *)
(***************************************************************************)
\* str.upper on a role
Upper == ("user" :> "USER") @@ ("assistant" :> "ASSISTANT")

Prompt(query, context, conversation_history) ==
    [context |-> IF context = << >> THEN <<"No additional context available.">>
                 ELSE [i \in 1..Len(context) |->
                          <<context[i].metadata.filename, context[i].page_content>>],
     chat_history |-> IF conversation_history = << >>
                      THEN <<"No previous conversation.">>
                      ELSE LET last == LastN(conversation_history, history_window)
                           IN [i \in 1..Len(last) |->
                                  <<Upper[last[i].role], last[i].content>>],
     question |-> query]

(***************************************************************************)
(* State.                                                                  *)
(*   mem    the Redis database of MemoryService                            *)
(*   index  the Redis JSON documents of VectorService (key -> chunk)       *)
(*   uuids  the values uuid.uuid4() has handed out, in order                *)
(*   task   the coroutines in flight: per handler slot, the locals of the  *)
(*          call, its program counter (the next await), the error          *)
(*          messages it logged and, for a request, the stages it has       *)
(*          completed (trace)                                              *)
(*   clock  source of datetime.utcnow(): one tick per message pair         *)
(*   hist   per session, the message pairs pushed on the short-term key    *)
(*          since that key last came into existence (history variable)     *)
(*   dirty  per session, whether an append on that key ended in its        *)
(*          except branch between its push and its trim (history variable) *)
(***************************************************************************)
VARIABLES mem, index, uuids, task, clock, hist, dirty

vars == <<mem, index, uuids, task, clock, hist, dirty>>

NoPair == [timestamp |-> 0, user |-> None, ai |-> None]
NoResult == [status |-> 0]
NoVerdict == [unset |-> TRUE]

ErrShortRead == "Error retrieving short-term memory"
ErrLongRead == "Error retrieving long-term memory"
ErrShortAdd == "Error adding to short-term memory"
ErrLongAdd == "Error adding to long-term memory"
ErrClear == "Error clearing session memory"
ErrSearch == "Error performing similarity search"
ErrQuery == "Error processing query"
ErrValidateInput == "Error validating input"
ErrValidateOutput == "Error validating output"

\* str(e) of an exception raised by the LLM client, the embedding service,
\* the Redis client or a text extractor
ExceptionTexts == {"Connection refused", "Read timed out"}

\* the detail of an HTTPException: an f-string, kept as its parts
DetailQuery(e) == <<"Error processing query: ", e>>
DetailDocument(e) == <<"Error processing document: ">> \o e

IdleTask ==
    [op |-> "none", pc |-> "idle", session_id |-> None, query |-> None,
     use_context |-> FALSE, guardrails_result |-> NoVerdict,
     conversation_history |-> << >>, context_docs |-> << >>,
     response |-> None, output_guardrails |-> NoVerdict, message_pair |-> NoPair,
     result |-> NoResult, read |-> << >>, trace |-> << >>, llm_calls |-> 0,
     log |-> {}, empty_at_start |-> FALSE,
     error |-> << >>, prompt_context |-> << >>, chat_history |-> << >>,
     file |-> None, document_id |-> None, documents |-> << >>,
     pipeline |-> << >>, keys |-> {}, listing |-> << >>,
     k |-> 0, score_threshold |-> << >>, reply |-> << >>]

Init ==
    /\ mem = [k \in MemKeys |-> NoKey]
    /\ index \in InitialIndexes
    /\ uuids = << >>
    /\ task = [t \in Tasks |-> IdleTask]
    /\ clock = 1
    /\ hist = [s \in Sessions |-> << >>]
    /\ dirty = [s \in Sessions |-> FALSE]

\* history variables after the database changed to db: a key that no longer
\* exists starts afresh
HistAfter(db, h) ==
    [s \in Sessions |-> IF db[StmKey(s)].list = << >> THEN << >> ELSE h[s]]
DirtyAfter(db, d) ==
    [s \in Sessions |-> IF db[StmKey(s)].list = << >> THEN FALSE ELSE d[s]]

\* handler slots are interchangeable: a call takes the first free one
TaskOrder == <<"t1", "t2">>
CanStart(t) ==
    /\ task[t].pc = "idle"
    /\ \A i, j \in 1..Len(TaskOrder) :
          (TaskOrder[j] = t /\ i < j) => task[TaskOrder[i]].pc # "idle"

\* calls in flight that have yet to create their message pair or entry
MayAppend(t) ==
    task[t].pc \in {"validate_input", "get_short_term_memory", "similarity_search",
                    "generate_response", "validate_output", "add_lpush", "ltm_lpush"}
\* a new call may still create a message pair within the bound
AppendsLeft(bound) == clock + Cardinality({t \in Tasks : MayAppend(t)}) <= bound

(***************************************************************************)
(* POST /api/v1/query: main.query.                                         *)
(***************************************************************************)
\* the request arrives; empty_at_start notes whether the session had no
\* short-term exchange then
Submit(t, query, session_id, use_context) ==
    /\ CanStart(t)
    /\ AppendsLeft(MaxQueryAppends)
    /\ task' = [task EXCEPT ![t] =
                  [IdleTask EXCEPT !.op = "query", !.pc = "validate_input",
                                   !.query = query, !.session_id = session_id,
                                   !.use_context = use_context,
                                   !.empty_at_start =
                                       (mem[StmKey(session_id)].list = << >>),
                                   !.trace = <<"RECEIVED">>]]
    /\ UNCHANGED <<mem, index, uuids, clock, hist, dirty>>

\* lines 193-200 with a validator that blocks and proceeds
QueryValidateInputIgnoringVerdict(t) ==
    /\ task[t].op = "query"
    /\ task[t].pc = "validate_input"
    /\ task' = [task EXCEPT
          ![t].pc = "get_short_term_memory",
          ![t].guardrails_result = validate_input(task[t].query, FALSE),
          ![t].trace = @ \o <<"INPUT_VALIDATED">>]
    /\ UNCHANGED <<mem, index, uuids, clock, hist, dirty>>

\* lines 193-200
QueryValidateInput(t) ==
    /\ task[t].op = "query"
    /\ task[t].pc = "validate_input"
    /\ \E fault \in BOOLEAN :
         LET guardrails_result == validate_input(task[t].query, fault)
         IN IF ~guardrails_result.passed
            THEN task' = [task EXCEPT
                    ![t].pc = "DONE",
                    ![t].log = IF fault THEN @ \cup {ErrValidateInput} ELSE @,
                    ![t].guardrails_result = guardrails_result,
                    ![t].trace = @ \o <<"INPUT_VALIDATED", "DONE">>,
                    ![t].result = [status |-> 200,
                                   response |-> guardrails_result.message,
                                   session_id |-> task[t].session_id,
                                   sources |-> << >>,
                                   guardrails_passed |-> FALSE]]
            ELSE task' = [task EXCEPT
                    ![t].pc = "get_short_term_memory",
                    ![t].log = IF fault THEN @ \cup {ErrValidateInput} ELSE @,
                    ![t].guardrails_result = guardrails_result,
                    ![t].trace = @ \o <<"INPUT_VALIDATED">>]
    /\ UNCHANGED <<mem, index, uuids, clock, hist, dirty>>

\* lines 202-203 skipped: straight to the vector search
QueryMemoryReadSkipped(t) ==
    /\ task[t].op = "query"
    /\ task[t].pc = "get_short_term_memory"
    /\ task' = [task EXCEPT ![t].pc = "similarity_search"]
    /\ UNCHANGED <<mem, index, uuids, clock, hist, dirty>>

\* lines 202-203
QueryMemoryRead(t) ==
    /\ task[t].op = "query"
    /\ task[t].pc = "get_short_term_memory"
    /\ \E failed \in BOOLEAN :
         task' = [task EXCEPT
            ![t].pc = "similarity_search",
            ![t].trace = @ \o <<"MEMORY_READ">>,
            ![t].log = IF failed THEN @ \cup {ErrShortRead} ELSE @,
            ![t].conversation_history =
                get_short_term_memory(mem, task[t].session_id, failed)]
    /\ UNCHANGED <<mem, index, uuids, clock, hist, dirty>>

\* lines 205-208 with a search whose failure reaches the handler
QueryContextRaising(t) ==
    /\ task[t].op = "query"
    /\ task[t].pc = "similarity_search"
    /\ IF task[t].use_context
       THEN \/ \E docs \in KnnResults(index, EmbeddingOf[task[t].query], query_k) :
                 task' = [task EXCEPT
                    ![t].pc = "generate_response",
                    ![t].trace = @ \o <<"CONTEXT_RETRIEVED">>,
                    ![t].context_docs = similarity_search(docs, NoThreshold, FALSE)]
            \/ task' = [task EXCEPT
                    ![t].pc = "ERROR",
                    ![t].trace = @ \o <<"ERROR">>,
                    ![t].log = @ \cup {ErrSearch, ErrQuery},
                    ![t].result = [status |-> 500]]
       ELSE task' = [task EXCEPT
                 ![t].pc = "generate_response",
                 ![t].trace = @ \o <<"CONTEXT_RETRIEVED">>,
                 ![t].context_docs = << >>]
    /\ UNCHANGED <<mem, index, uuids, clock, hist, dirty>>

\* lines 205-208
QueryContext(t) ==
    /\ task[t].op = "query"
    /\ task[t].pc = "similarity_search"
    /\ IF task[t].use_context
       THEN \E failed \in BOOLEAN :
            \E docs \in KnnResults(index, EmbeddingOf[task[t].query], query_k) :
              task' = [task EXCEPT
                 ![t].pc = "generate_response",
                 ![t].trace = @ \o <<"CONTEXT_RETRIEVED">>,
                 ![t].log = IF failed THEN @ \cup {ErrSearch} ELSE @,
                 ![t].context_docs = similarity_search(docs, NoThreshold, failed)]
       ELSE task' = [task EXCEPT
                 ![t].pc = "generate_response",
                 ![t].trace = @ \o <<"CONTEXT_RETRIEVED">>,
                 ![t].context_docs = << >>]
    /\ UNCHANGED <<mem, index, uuids, clock, hist, dirty>>

\* lines 210-216 with a handler that calls the model again after a failure
QueryGenerateRetrying(t) ==
    /\ task[t].op = "query"
    /\ task[t].pc = "generate_response"
    /\ task[t].llm_calls < 2
    /\ \/ \E text \in OutputTexts :
            task' = [task EXCEPT
               ![t].pc = "validate_output",
               ![t].conversation_history = << >>,
               ![t].trace = @ \o <<"GENERATED">>,
               ![t].llm_calls = @ + 1,
               ![t].response = text]
       \/ task' = [task EXCEPT ![t].llm_calls = @ + 1]
    /\ UNCHANGED <<mem, index, uuids, clock, hist, dirty>>

\* lines 210-216 and, when the call raises, lines 238-241.  The history
\* read at line 203 is not used after the call.
QueryGenerate(t) ==
    /\ task[t].op = "query"
    /\ task[t].pc = "generate_response"
    /\ \/ \E text \in OutputTexts :
            task' = [task EXCEPT
               ![t].pc = "validate_output",
               ![t].conversation_history = << >>,
               ![t].trace = @ \o <<"GENERATED">>,
               ![t].llm_calls = @ + 1,
               ![t].prompt_context = Prompt(task[t].query, task[t].context_docs,
                                            task[t].conversation_history).context,
               ![t].response = text]
       \/ \E e \in ExceptionTexts :
            task' = [task EXCEPT
               ![t].pc = "ERROR",
               ![t].conversation_history = << >>,
               ![t].log = @ \cup {ErrQuery},
               ![t].trace = @ \o <<"ERROR">>,
               ![t].llm_calls = @ + 1,
               ![t].prompt_context = Prompt(task[t].query, task[t].context_docs,
                                            task[t].conversation_history).context,
               ![t].error = <<e>>,
               ![t].result = [status |-> 500, detail |-> DetailQuery(e)]]
    /\ UNCHANGED <<mem, index, uuids, clock, hist, dirty>>

\* lines 218-221 without the replacement of line 221
QueryValidateOutputKeepingText(t) ==
    /\ task[t].op = "query"
    /\ task[t].pc = "validate_output"
    /\ task' = [task EXCEPT
          ![t].pc = "add_lpush",
          ![t].trace = @ \o <<"OUTPUT_VALIDATED">>,
          ![t].output_guardrails = validate_output(task[t].response, FALSE)]
    /\ UNCHANGED <<mem, index, uuids, clock, hist, dirty>>

\* lines 218-221 with a blocked output answered at once, like a blocked input
QueryValidateOutputReturningOnBlock(t) ==
    /\ task[t].op = "query"
    /\ task[t].pc = "validate_output"
    /\ LET output_guardrails == validate_output(task[t].response, FALSE)
       IN IF ~output_guardrails.passed
          THEN task' = [task EXCEPT
                  ![t].pc = "DONE",
                  ![t].trace = @ \o <<"OUTPUT_VALIDATED", "DONE">>,
                  ![t].output_guardrails = output_guardrails,
                  ![t].response = output_guardrails.message,
                  ![t].result = [status |-> 200,
                                 response |-> output_guardrails.message,
                                 session_id |-> task[t].session_id,
                                 sources |-> << >>,
                                 guardrails_passed |-> FALSE]]
          ELSE task' = [task EXCEPT
                  ![t].pc = "add_lpush",
                  ![t].trace = @ \o <<"OUTPUT_VALIDATED">>,
                  ![t].output_guardrails = output_guardrails]
    /\ UNCHANGED <<mem, index, uuids, clock, hist, dirty>>

\* lines 218-221
QueryValidateOutput(t) ==
    /\ task[t].op = "query"
    /\ task[t].pc = "validate_output"
    /\ \E fault \in BOOLEAN :
         LET output_guardrails == validate_output(task[t].response, fault)
         IN task' = [task EXCEPT
               ![t].pc = "add_lpush",
               ![t].trace = @ \o <<"OUTPUT_VALIDATED">>,
               ![t].log = IF fault THEN @ \cup {ErrValidateOutput} ELSE @,
               ![t].output_guardrails = output_guardrails,
               ![t].response = IF ~output_guardrails.passed
                               THEN output_guardrails.message ELSE @]
    /\ UNCHANGED <<mem, index, uuids, clock, hist, dirty>>

\* lines 230-236 with sources listed whenever context was asked for
QueryResponseWhenAsked(r) ==
    [status |-> 200,
     response |-> r.response,
     session_id |-> r.session_id,
     sources |-> IF r.use_context
                 THEN <<[i \in 1..Len(r.context_docs) |-> r.context_docs[i].metadata]>>
                 ELSE << >>,
     guardrails_passed |-> r.output_guardrails.passed]

\* lines 230-236: the reply built once add_to_short_term_memory returned
QueryResponse(r) ==
    [status |-> 200,
     response |-> r.response,
     session_id |-> r.session_id,
     sources |-> IF r.context_docs # << >>
                 THEN <<[i \in 1..Len(r.context_docs) |-> r.context_docs[i].metadata]>>
                 ELSE << >>,
     guardrails_passed |-> r.output_guardrails.passed]

(***************************************************************************)
(* MemoryService.add_to_short_term_memory: three awaits (lpush, ltrim,     *)
(* expire) inside one try block whose except branch logs and returns.      *)
(***************************************************************************)
\* the caller's locals once the service method returned: main.query goes on
\* to its return statement without another await
AfterAdd(t, failed) ==
    LET r == [task[t] EXCEPT !.log = IF failed THEN @ \cup {ErrShortAdd} ELSE @]
    IN IF r.op = "query"
       THEN [r EXCEPT !.pc = "DONE", !.trace = @ \o <<"MEMORY_WRITTEN", "DONE">>,
                      !.result = QueryResponse(r)]
       ELSE [r EXCEPT !.pc = "returned"]

\* lines 56-66 with the answer also pushed on the long-term key
AddLPushWithSummary(t) ==
    /\ task[t].pc = "add_lpush"
    /\ LET s == task[t].session_id
           message_pair == [timestamp |-> clock, user |-> task[t].query,
                            ai |-> task[t].response]
           memory_entry == [timestamp |-> clock, summary |-> task[t].response,
                            metadata |-> << >>]
       IN /\ mem' = LPush(LPush(mem, StmKey(s), message_pair), LtmKey(s), memory_entry)
          /\ hist' = [hist EXCEPT ![s] = @ \o <<message_pair>>]
          /\ task' = [task EXCEPT ![t].pc = "add_ltrim",
                                  ![t].message_pair = message_pair]
    /\ clock' = clock + 1
    /\ UNCHANGED <<index, uuids, dirty>>

\* lines 56-66
AddLPush(t) ==
    /\ task[t].pc = "add_lpush"
    /\ LET s == task[t].session_id
           message_pair == [timestamp |-> clock, user |-> task[t].query,
                            ai |-> task[t].response]
       IN /\ mem' = LPush(mem, StmKey(s), message_pair)
          /\ hist' = [hist EXCEPT ![s] = @ \o <<message_pair>>]
          /\ task' = [task EXCEPT ![t].pc = "add_ltrim",
                                  ![t].message_pair = message_pair]
    /\ clock' = clock + 1
    /\ UNCHANGED <<index, uuids, dirty>>

\* lines 68-73 with the stop index one too far
AddLTrimOffByOne(t) ==
    /\ task[t].pc = "add_ltrim"
    /\ mem' = LTrim(mem, StmKey(task[t].session_id), 0, max_short_term_messages)
    /\ hist' = HistAfter(mem', hist)
    /\ dirty' = DirtyAfter(mem', dirty)
    /\ task' = [task EXCEPT ![t].pc = "add_expire"]
    /\ UNCHANGED <<index, uuids, clock>>

\* lines 68-73 with a trim that keeps the newest message pair only
AddLTrimKeepingOne(t) ==
    /\ task[t].pc = "add_ltrim"
    /\ mem' = LTrim(mem, StmKey(task[t].session_id), 0, 0)
    /\ hist' = HistAfter(mem', hist)
    /\ dirty' = DirtyAfter(mem', dirty)
    /\ task' = [task EXCEPT ![t].pc = "add_expire"]
    /\ UNCHANGED <<index, uuids, clock>>

\* lines 68-73
AddLTrim(t) ==
    /\ task[t].pc = "add_ltrim"
    /\ mem' = LTrim(mem, StmKey(task[t].session_id), 0, max_short_term_messages - 1)
    /\ hist' = HistAfter(mem', hist)
    /\ dirty' = DirtyAfter(mem', dirty)
    /\ task' = [task EXCEPT ![t].pc = "add_expire"]
    /\ UNCHANGED <<index, uuids, clock>>

\* lines 75-78 with the expiration of both of the session's keys refreshed
AddExpireBothTiers(t) ==
    /\ task[t].pc = "add_expire"
    /\ mem' = Expire(Expire(mem, StmKey(task[t].session_id), short_term_memory_ttl),
                     LtmKey(task[t].session_id), long_term_memory_ttl)
    /\ hist' = HistAfter(mem', hist)
    /\ dirty' = DirtyAfter(mem', dirty)
    /\ task' = [task EXCEPT ![t] = AfterAdd(t, FALSE)]
    /\ UNCHANGED <<index, uuids, clock>>

\* lines 75-78
AddExpire(t) ==
    /\ task[t].pc = "add_expire"
    /\ mem' = Expire(mem, StmKey(task[t].session_id), short_term_memory_ttl)
    /\ hist' = HistAfter(mem', hist)
    /\ dirty' = DirtyAfter(mem', dirty)
    /\ task' = [task EXCEPT ![t] = AfterAdd(t, FALSE)]
    /\ UNCHANGED <<index, uuids, clock>>

\* lines 80-81 without the except branch: the store's error reaches the caller
AddFailRaising(t) ==
    /\ task[t].pc \in {"add_lpush", "add_ltrim", "add_expire"}
    /\ dirty' = [dirty EXCEPT ![task[t].session_id] =
                    @ \/ (task[t].pc = "add_ltrim"
                          /\ mem[StmKey(task[t].session_id)].list # << >>)]
    /\ task' = [task EXCEPT ![t] =
                  IF task[t].op = "query"
                  THEN [task[t] EXCEPT !.pc = "ERROR",
                                       !.log = @ \cup {ErrShortAdd, ErrQuery},
                                       !.trace = @ \o <<"ERROR">>,
                                       !.result = [status |-> 500]]
                  ELSE AfterAdd(t, TRUE)]
    /\ UNCHANGED <<mem, index, uuids, clock, hist>>

\* lines 80-81: the pending store call raised
AddFail(t) ==
    /\ task[t].pc \in {"add_lpush", "add_ltrim", "add_expire"}
    /\ dirty' = [dirty EXCEPT ![task[t].session_id] =
                    @ \/ (task[t].pc = "add_ltrim"
                          /\ mem[StmKey(task[t].session_id)].list # << >>)]
    /\ task' = [task EXCEPT ![t] = AfterAdd(t, TRUE)]
    /\ UNCHANGED <<mem, index, uuids, clock, hist>>

\* the awaits of main.query at which the coroutine is suspended: the store,
\* embedding and model calls (the validators return without suspending, and
\* no search is awaited when use_context is false)
Suspended(t) ==
    /\ task[t].op = "query"
    /\ \/ task[t].pc \in {"get_short_term_memory", "generate_response",
                          "add_lpush", "add_ltrim", "add_expire"}
       \/ task[t].pc = "similarity_search" /\ task[t].use_context

\* a cancellation caught like an ordinary error: the request goes on
CancelSwallowed(t) ==
    /\ Suspended(t)
    /\ ~\E i \in 1..Len(task[t].trace) : task[t].trace[i] = "CANCELLED"
    /\ task' = [task EXCEPT ![t].trace = @ \o <<"CANCELLED">>]
    /\ UNCHANGED <<mem, index, uuids, clock, hist, dirty>>

\* the request's task is cancelled while suspended: CancelledError is not an
\* Exception, so no except branch of the services or of main.query (lines
\* 238-241) catches it and the coroutine ends there
Cancel(t) ==
    /\ Suspended(t)
    /\ dirty' = [dirty EXCEPT ![task[t].session_id] =
                    @ \/ (task[t].pc = "add_ltrim"
                          /\ mem[StmKey(task[t].session_id)].list # << >>)]
    /\ task' = [task EXCEPT ![t].pc = "CANCELLED",
                            ![t].conversation_history = << >>,
                            ![t].trace = @ \o <<"CANCELLED">>]
    /\ UNCHANGED <<mem, index, uuids, clock, hist>>

\* the handler slot is free again once its caller has the reply
Finish(t) ==
    /\ task[t].pc \in {"DONE", "ERROR", "CANCELLED", "returned"}
    /\ task' = [task EXCEPT ![t] = IdleTask]
    /\ UNCHANGED <<mem, index, uuids, clock, hist, dirty>>

\* the store's own expiration: one clock tick
Tick ==
    /\ \E k \in MemKeys : mem[k].ttl > 0
    /\ mem' = Elapse(mem)
    /\ hist' = HistAfter(mem', hist)
    /\ dirty' = DirtyAfter(mem', dirty)
    /\ UNCHANGED <<index, uuids, task, clock>>

(***************************************************************************)
(* Direct calls of the MemoryService methods.                              *)
(***************************************************************************)
\* the texts of the exchanges and summaries appended by direct calls
ExchangeTexts == {<<"hello", "Sure.">>}
SummaryTexts == {"summary"}

\* add_to_short_term_memory(session_id, user_message, ai_message) is called
CallAddShort(t, session_id, user_message, ai_message) ==
    /\ CanStart(t)
    /\ AppendsLeft(MaxAppends)
    /\ task' = [task EXCEPT ![t] =
                  [IdleTask EXCEPT !.op = "add_short", !.pc = "add_lpush",
                                   !.session_id = session_id,
                                   !.query = user_message,
                                   !.response = ai_message]]
    /\ UNCHANGED <<mem, index, uuids, clock, hist, dirty>>

\* get_short_term_memory(session_id): lines 93-115
CallGetShort(t, session_id) ==
    /\ CanStart(t)
    /\ \E failed \in BOOLEAN :
         task' = [task EXCEPT ![t] =
                    [IdleTask EXCEPT !.op = "get_short", !.pc = "returned",
                                     !.session_id = session_id,
                                     !.log = IF failed THEN {ErrShortRead} ELSE {},
                                     !.read = get_short_term_memory(mem, session_id, failed)]]
    /\ UNCHANGED <<mem, index, uuids, clock, hist, dirty>>

\* get_long_term_memory(session_id): lines 158-166
CallGetLong(t, session_id) ==
    /\ CanStart(t)
    /\ \E failed \in BOOLEAN :
         task' = [task EXCEPT ![t] =
                    [IdleTask EXCEPT !.op = "get_long", !.pc = "returned",
                                     !.session_id = session_id,
                                     !.log = IF failed THEN {ErrLongRead} ELSE {},
                                     !.read = get_long_term_memory(mem, session_id, failed)]]
    /\ UNCHANGED <<mem, index, uuids, clock, hist, dirty>>

\* add_to_long_term_memory(session_id, summary) is called
CallAddLong(t, session_id, summary) ==
    /\ CanStart(t)
    /\ AppendsLeft(MaxAppends)
    /\ task' = [task EXCEPT ![t] =
                  [IdleTask EXCEPT !.op = "add_long", !.pc = "ltm_lpush",
                                   !.session_id = session_id,
                                   !.query = summary]]
    /\ UNCHANGED <<mem, index, uuids, clock, hist, dirty>>

\* lines 132-140
AddLongLPush(t) ==
    /\ task[t].pc = "ltm_lpush"
    /\ LET memory_entry == [timestamp |-> clock, summary |-> task[t].query,
                            metadata |-> << >>]
       IN mem' = LPush(mem, LtmKey(task[t].session_id), memory_entry)
    /\ clock' = clock + 1
    /\ task' = [task EXCEPT ![t].pc = "ltm_expire"]
    /\ UNCHANGED <<index, uuids, hist, dirty>>

\* lines 141-143
AddLongExpire(t) ==
    /\ task[t].pc = "ltm_expire"
    /\ mem' = Expire(mem, LtmKey(task[t].session_id), long_term_memory_ttl)
    /\ task' = [task EXCEPT ![t].pc = "returned"]
    /\ UNCHANGED <<index, uuids, clock, hist, dirty>>

\* lines 145-146: the pending store call raised
AddLongFail(t) ==
    /\ task[t].pc \in {"ltm_lpush", "ltm_expire"}
    /\ task' = [task EXCEPT ![t].pc = "returned", ![t].log = @ \cup {ErrLongAdd}]
    /\ UNCHANGED <<mem, index, uuids, clock, hist, dirty>>

\* GuardrailsService.validate_input(text) is called
CallValidateInput(t, text) ==
    /\ CanStart(t)
    /\ \E fault \in BOOLEAN :
         task' = [task EXCEPT ![t] =
                    [IdleTask EXCEPT !.op = "validate_input", !.pc = "returned",
                                     !.query = text,
                                     !.log = IF fault THEN {ErrValidateInput} ELSE {},
                                     !.guardrails_result = validate_input(text, fault)]]
    /\ UNCHANGED <<mem, index, uuids, clock, hist, dirty>>

\* GuardrailsService.validate_output(text) is called
CallValidateOutput(t, text) ==
    /\ CanStart(t)
    /\ \E fault \in BOOLEAN :
         task' = [task EXCEPT ![t] =
                    [IdleTask EXCEPT !.op = "validate_output", !.pc = "returned",
                                     !.query = text,
                                     !.log = IF fault THEN {ErrValidateOutput} ELSE {},
                                     !.output_guardrails = validate_output(text, fault)]]
    /\ UNCHANGED <<mem, index, uuids, clock, hist, dirty>>

\* the reply of DEL: how many of the keys existed
Existing(db, keys) == Cardinality({k \in keys : db[k].list # << >>})

\* clear_session with the long-term key left out of the DEL
ClearSessionShortOnly(t, session_id) ==
    /\ CanStart(t)
    /\ mem' = Del(mem, {StmKey(session_id)})
    /\ task' = [task EXCEPT ![t] =
                  [IdleTask EXCEPT !.op = "clear", !.pc = "returned",
                                   !.session_id = session_id,
                                   !.read = <<Existing(mem, {StmKey(session_id),
                                                             LtmKey(session_id)})>>]]
    /\ hist' = HistAfter(mem', hist)
    /\ dirty' = DirtyAfter(mem', dirty)
    /\ UNCHANGED <<index, uuids, clock>>

\* clear_session(session_id): lines 170-178; `read` keeps the reply of DEL
ClearSession(t, session_id) ==
    /\ CanStart(t)
    /\ \E failed \in BOOLEAN :
         /\ mem' = IF failed THEN mem
                   ELSE Del(mem, {StmKey(session_id), LtmKey(session_id)})
         /\ task' = [task EXCEPT ![t] =
                       [IdleTask EXCEPT !.op = "clear", !.pc = "returned",
                                        !.session_id = session_id,
                                        !.log = IF failed THEN {ErrClear} ELSE {},
                                        !.read = IF failed THEN << >>
                                                 ELSE <<Existing(mem,
                                                          {StmKey(session_id),
                                                           LtmKey(session_id)})>>]]
    /\ hist' = HistAfter(mem', hist)
    /\ dirty' = DirtyAfter(mem', dirty)
    /\ UNCHANGED <<index, uuids, clock>>

(***************************************************************************)
(* POST /api/v1/documents/upload: main.upload_document,                    *)
(* DocumentService.process_document and VectorService.add_documents.  The  *)
(* awaits are file.read(), one _get_embedding per chunk and                *)
(* pipeline.execute(); the extractors are coroutines without an await.     *)
(***************************************************************************)
ErrUpload == "Error uploading document"
ErrProcess == "Error processing document"
ErrEmbedding == "Error getting embedding"
ErrAddDocuments == "Error adding documents to vector store"
ErrDelete == "Error deleting document"
ErrList == "Error listing documents"

\* uploads that have yet to draw their document id
MayDraw(t) == task[t].pc = "file_read"
UploadsLeft == Len(uuids) + Cardinality({t \in Tasks : MayDraw(t)}) < MaxUploads

\* main.py lines 279-282: the except branch of the handler; `e` is the
\* text of the exception, in parts
UploadFailed(r, e, logged) ==
    [r EXCEPT !.pc = "ERROR",
              !.log = @ \cup logged \cup {ErrUpload},
              !.error = e,
              !.result = [status |-> 500, detail |-> DetailDocument(e)]]

\* main.py lines 256-266: the extension check, then the handler awaits the
\* content of the file
Upload(t, file) ==
    /\ CanStart(t)
    /\ UploadsLeft
    /\ task' = [task EXCEPT ![t] =
          IF \E i \in 1..Len(allowed_extensions) :
                 allowed_extensions[i] = FileInfo[file].extension
          THEN [IdleTask EXCEPT !.op = "upload", !.pc = "file_read", !.file = file]
          ELSE [IdleTask EXCEPT !.op = "upload", !.pc = "DONE", !.file = file,
                                !.result = [status |-> 400,
                                            detail |-> <<MsgFileType>>]]]
    /\ UNCHANGED <<mem, index, uuids, clock, hist, dirty>>

\* main.py line 266 and document_service.py lines 53-92, up to the first
\* await of add_documents
UploadRead(t) ==
    /\ task[t].op = "upload"
    /\ task[t].pc = "file_read"
    /\ LET file == task[t].file
           info == FileInfo[file]
           text == info.text
           document_id == uuid4(uuids)
           documents == Documents(split_text[text], file, document_id,
                                  info.extension)
       IN \/ \E e \in ExceptionTexts :
                /\ task' = [task EXCEPT ![t] = UploadFailed(@, <<e>>, {})]
                /\ uuids' = uuids
          \/ /\ info.size > max_file_size_mb * MegaByte
             /\ task' = [task EXCEPT ![t] =
                            UploadFailed(@, <<MsgFileSize>>, {ErrProcess})]
             /\ uuids' = uuids
          \/ /\ info.size <= max_file_size_mb * MegaByte
             /\ \E e \in ExceptionTexts :
                  task' = [task EXCEPT ![t] =
                      UploadFailed(@,
                          IF info.extension = ".pdf" THEN <<MsgPdf, e>>
                          ELSE IF info.extension = ".docx" THEN <<MsgDocx, e>>
                          ELSE <<e>>,
                          {ErrProcess})]
             /\ uuids' = uuids
          \/ /\ info.size <= max_file_size_mb * MegaByte
             /\ Strip(text) = ""
             /\ task' = [task EXCEPT ![t] =
                            UploadFailed(@, <<MsgNoText>>, {ErrProcess})]
             /\ uuids' = uuids
          \/ /\ info.size <= max_file_size_mb * MegaByte
             /\ Strip(text) # ""
             /\ task' = [task EXCEPT
                   ![t].pc = IF documents = << >> THEN "execute" ELSE "embed",
                   ![t].document_id = document_id,
                   ![t].documents = documents]
             /\ uuids' = Append(uuids, document_id)
    /\ UNCHANGED <<mem, index, clock, hist, dirty>>

\* a direct call of VectorService.add_documents
CallAddDocuments(t, documents, document_id) ==
    /\ CanStart(t)
    /\ task' = [task EXCEPT ![t] =
          [IdleTask EXCEPT !.op = "add_documents",
                           !.pc = IF documents = << >> THEN "execute" ELSE "embed",
                           !.document_id = document_id,
                           !.documents = documents]]
    /\ UNCHANGED <<mem, index, uuids, clock, hist, dirty>>

\* the exception e leaves add_documents (lines 154-156) and, in an upload,
\* process_document (lines 109-111) and the handler
AddDocumentsRaised(r, e, logged) ==
    IF r.op = "upload"
    THEN UploadFailed(r, <<e>>, logged \cup {ErrAddDocuments, ErrProcess})
    ELSE [r EXCEPT !.pc = "ERROR", !.error = <<e>>,
                   !.log = @ \cup logged \cup {ErrAddDocuments}]

\* add_documents returned n: document_service.py lines 100-107 and
\* main.py line 275
AddDocumentsReturned(r, n) ==
    IF r.op = "upload"
    THEN [r EXCEPT !.pc = "DONE",
                   !.result = [status |-> 200, document_id |-> r.document_id,
                               filename |-> r.file, chunks_created |-> n,
                               state |-> "success"]]
    ELSE [r EXCEPT !.pc = "returned", !.result = [status |-> 0, returned |-> n]]

\* vector_service.py lines 131-147 with a chunk whose embedding failed
\* left out instead of ending the call
EmbedSkippingFailures(t) ==
    /\ task[t].op \in {"upload", "add_documents"}
    /\ task[t].pc = "embed"
    /\ \/ task' = [task EXCEPT
             ![t].pipeline = Queued(task[t].documents, task[t].document_id,
                                    Len(@) + 1),
             ![t].pc = IF Len(task[t].pipeline) + 1 = Len(task[t].documents)
                       THEN "execute" ELSE "embed"]
       \/ task' = [task EXCEPT ![t].pc = "execute", ![t].log = @ \cup {ErrEmbedding}]
    /\ UNCHANGED <<mem, index, uuids, clock, hist, dirty>>

\* vector_service.py lines 131-147 with the JSON.SET of chunk idx sent to the
\* store in its turn of the loop instead of being queued
EmbedWritingThrough(t) ==
    /\ task[t].op \in {"upload", "add_documents"}
    /\ task[t].pc = "embed"
    /\ \/ LET pipeline == Queued(task[t].documents, task[t].document_id,
                                 Len(task[t].pipeline) + 1)
          IN /\ index' = Applied(index, pipeline, {Len(pipeline)})
             /\ task' = [task EXCEPT
                   ![t].pipeline = pipeline,
                   ![t].pc = IF Len(pipeline) = Len(task[t].documents)
                             THEN "execute" ELSE "embed"]
       \/ /\ index' = index
          /\ \E e \in ExceptionTexts :
                task' = [task EXCEPT ![t] = AddDocumentsRaised(@, e, {ErrEmbedding})]
    /\ UNCHANGED <<mem, uuids, clock, hist, dirty>>

\* vector_service.py lines 131-147: one turn of the loop, the embedding of
\* chunk idx and its JSON.SET queued on the pipeline
Embed(t) ==
    /\ task[t].op \in {"upload", "add_documents"}
    /\ task[t].pc = "embed"
    /\ \/ task' = [task EXCEPT
             ![t].pipeline = Queued(task[t].documents, task[t].document_id,
                                    Len(@) + 1),
             ![t].pc = IF Len(task[t].pipeline) + 1 = Len(task[t].documents)
                       THEN "execute" ELSE "embed"]
       \/ \E e \in ExceptionTexts :
             task' = [task EXCEPT ![t] = AddDocumentsRaised(@, e, {ErrEmbedding})]
    /\ UNCHANGED <<mem, index, uuids, clock, hist, dirty>>

\* vector_service.py lines 149-152: the pipeline runs as one MULTI/EXEC.
\* When execute raises, any of the queued commands may have been applied.
Execute(t) ==
    /\ task[t].op \in {"upload", "add_documents"}
    /\ task[t].pc = "execute"
    /\ \/ /\ index' = Applied(index, task[t].pipeline, 1..Len(task[t].pipeline))
          /\ task' = [task EXCEPT ![t] =
                         AddDocumentsReturned(@, Len(task[t].documents))]
       \/ \E e \in ExceptionTexts, done \in SUBSET (1..Len(task[t].pipeline)) :
             /\ index' = Applied(index, task[t].pipeline, done)
             /\ task' = [task EXCEPT ![t] = AddDocumentsRaised(@, e, {})]
    /\ UNCHANGED <<mem, uuids, clock, hist, dirty>>

(***************************************************************************)
(* DocumentService.delete_document and VectorService.delete_document: the  *)
(* scan for the keys of the document, then one DEL.                        *)
(***************************************************************************)
CallDeleteDocument(t, document_id) ==
    /\ CanStart(t)
    /\ task' = [task EXCEPT ![t] =
          [IdleTask EXCEPT !.op = "delete_document", !.pc = "delete_scan",
                           !.document_id = document_id]]
    /\ UNCHANGED <<mem, index, uuids, clock, hist, dirty>>

\* lines 233-235
DeleteFailed(r) ==
    [r EXCEPT !.pc = "returned", !.log = @ \cup {ErrDelete},
              !.result = [status |-> 0, returned |-> FALSE]]

\* lines 227-231 with a call that reports a failure when it found nothing
\* to delete
DeleteScanStrict(t) ==
    /\ task[t].op = "delete_document"
    /\ task[t].pc = "delete_scan"
    /\ LET keys == ScanDocument(index, task[t].document_id)
       IN \/ task' = [task EXCEPT ![t] = DeleteFailed(@)]
          \/ /\ keys = {}
             /\ task' = [task EXCEPT ![t].pc = "returned",
                                     ![t].result = [status |-> 0, returned |-> FALSE]]
          \/ /\ keys # {}
             /\ task' = [task EXCEPT ![t].pc = "delete_keys", ![t].keys = keys]
    /\ UNCHANGED <<mem, index, uuids, clock, hist, dirty>>

\* lines 221-231: the scan; with no key found the call returns at once
DeleteScan(t) ==
    /\ task[t].op = "delete_document"
    /\ task[t].pc = "delete_scan"
    /\ LET keys == ScanDocument(index, task[t].document_id)
       IN \/ task' = [task EXCEPT ![t] = DeleteFailed(@)]
          \/ /\ keys = {}
             /\ task' = [task EXCEPT ![t].pc = "returned",
                                     ![t].result = [status |-> 0, returned |-> TRUE]]
          \/ /\ keys # {}
             /\ task' = [task EXCEPT ![t].pc = "delete_keys", ![t].keys = keys]
    /\ UNCHANGED <<mem, index, uuids, clock, hist, dirty>>

\* lines 227-231
DeleteKeys(t) ==
    /\ task[t].op = "delete_document"
    /\ task[t].pc = "delete_keys"
    /\ \/ /\ task' = [task EXCEPT ![t] = DeleteFailed(@)]
          /\ index' = index
       \/ /\ index' = [key \in DOMAIN index \ task[t].keys |-> index[key]]
          /\ task' = [task EXCEPT ![t].pc = "returned",
                                  ![t].result = [status |-> 0, returned |-> TRUE]]
    /\ UNCHANGED <<mem, uuids, clock, hist, dirty>>

(***************************************************************************)
(* GET /api/v1/documents: main.list_documents,                             *)
(* DocumentService.list_documents and VectorService.list_documents: the    *)
(* scan for the keys, then one JSON.GET per key.                           *)
(***************************************************************************)
CallListDocuments(t) ==
    /\ CanStart(t)
    /\ task' = [task EXCEPT ![t] =
          [IdleTask EXCEPT !.op = "list_documents", !.pc = "list_scan"]]
    /\ UNCHANGED <<mem, index, uuids, clock, hist, dirty>>

\* vector_service.py lines 255-259 and main.py line 291
ListReturned(r, documents, failed) ==
    [r EXCEPT !.pc = "DONE", !.keys = {}, !.listing = << >>,
              !.log = IF failed THEN @ \cup {ErrList} ELSE @,
              !.result = [status |-> 200,
                          body |-> IF failed THEN << >> ELSE documents]]

\* lines 246-247: JSON.GET of a key that is gone answers None, and None has
\* no method get
AttributeErrorNone == "'NoneType' object has no attribute 'get'"

\* line 243: the keys the scan yields
ListScan(t) ==
    /\ task[t].op = "list_documents"
    /\ task[t].pc = "list_scan"
    /\ \/ task' = [task EXCEPT ![t] = ListReturned(@, << >>, TRUE)]
       \/ /\ ScanAll(index) = {}
          /\ task' = [task EXCEPT ![t] = ListReturned(@, << >>, FALSE)]
       \/ /\ ScanAll(index) # {}
          /\ task' = [task EXCEPT ![t].pc = "list_get", ![t].keys = ScanAll(index)]
    /\ UNCHANGED <<mem, index, uuids, clock, hist, dirty>>

\* lines 244-253: the next key of the scan (the order of a scan is not
\* specified and one order is taken here: the list returned is read as a
\* set); a key deleted since the scan reads as None and data.get raises
ListGet(t) ==
    /\ task[t].op = "list_documents"
    /\ task[t].pc = "list_get"
    /\ \/ task' = [task EXCEPT ![t] = ListReturned(@, << >>, TRUE)]
       \/ LET key == CHOOSE key \in task[t].keys : TRUE
          IN IF key \notin DOMAIN index
             THEN task' = [task EXCEPT ![t] =
                     [ListReturned(@, << >>, TRUE) EXCEPT
                         !.error = <<AttributeErrorNone>>]]
             ELSE LET documents == Counted(task[t].listing, index[key])
                  IN IF task[t].keys = {key}
                     THEN task' = [task EXCEPT ![t] =
                                      ListReturned(@, documents, FALSE)]
                     ELSE task' = [task EXCEPT ![t].keys = @ \ {key},
                                               ![t].listing = documents]
    /\ UNCHANGED <<mem, index, uuids, clock, hist, dirty>>

(***************************************************************************)
(* A direct call of VectorService.similarity_search.                       *)
(***************************************************************************)
CallSimilaritySearch(t, query, k, score_threshold) ==
    /\ CanStart(t)
    /\ \E failed \in BOOLEAN :
       \E docs \in KnnResults(index, EmbeddingOf[query], k) :
         task' = [task EXCEPT ![t] =
            [IdleTask EXCEPT
               !.op = "similarity_search", !.pc = "returned",
               !.query = query, !.k = k, !.score_threshold = score_threshold,
               !.reply = IF failed THEN << >> ELSE docs,
               !.log = IF failed THEN {ErrSearch} ELSE {},
               !.context_docs = similarity_search(docs, score_threshold, failed)]]
    /\ UNCHANGED <<mem, index, uuids, clock, hist, dirty>>

(***************************************************************************)
(* SpecDocs: uploads and direct calls of the document and vector services. *)
(***************************************************************************)
DocTasks == {"t1"}
UploadFiles == DOMAIN FileInfo
DeleteIds == {"d1", "d3", "u1"}

NextDocs ==
    \/ \E t \in DocTasks :
         \/ \E file \in UploadFiles : Upload(t, file)
         \/ \E document_id \in DeleteIds : CallDeleteDocument(t, document_id)
         \/ CallListDocuments(t)
    \/ \E t \in Tasks :
         \/ UploadRead(t)
         \/ Embed(t)
         \/ Execute(t)
         \/ DeleteScan(t)
         \/ DeleteKeys(t)
         \/ ListScan(t)
         \/ ListGet(t)
         \/ Finish(t)

SpecDocs == Init /\ [][NextDocs]_vars

(***************************************************************************)
(* SpecPattern: delete_document with ids the caller chooses freely, next   *)
(* to uploads and listings.                                                *)
(***************************************************************************)
PatternIds == {"d1", "d3", "d1:0", "*", "d?", "[du]1"}
PatternFiles == {"b.pdf"}

NextPattern ==
    \/ \E t \in Tasks :
         \/ \E file \in PatternFiles : Upload(t, file)
         \/ \E document_id \in PatternIds : CallDeleteDocument(t, document_id)
         \/ CallListDocuments(t)
    \/ \E t \in Tasks :
         \/ UploadRead(t)
         \/ Embed(t)
         \/ Execute(t)
         \/ DeleteScan(t)
         \/ DeleteKeys(t)
         \/ ListScan(t)
         \/ ListGet(t)
         \/ Finish(t)

SpecPattern == Init /\ [][NextPattern]_vars

(***************************************************************************)
(* SpecUpsert: direct calls of add_documents, delete_document and          *)
(* list_documents on one document id, two calls at a time.                 *)
(***************************************************************************)
UpsertIds == {"d1"}
UpsertChunks == {<<"chunk far">>, <<"chunk mid", "hello">>}

NextUpsert ==
    \/ \E t \in Tasks :
         \/ \E document_id \in UpsertIds, chunks \in UpsertChunks :
               CallAddDocuments(t, Documents(chunks, "c.txt", document_id, ".txt"),
                                document_id)
         \/ \E document_id \in UpsertIds : CallDeleteDocument(t, document_id)
         \/ CallListDocuments(t)
         \/ Embed(t)
         \/ Execute(t)
         \/ DeleteScan(t)
         \/ DeleteKeys(t)
         \/ ListScan(t)
         \/ ListGet(t)
         \/ Finish(t)

SpecUpsert == Init /\ [][NextUpsert]_vars

(***************************************************************************)
(* SpecSearch: direct calls of similarity_search on the indexes that       *)
(* uploads and deletions leave.                                            *)
(***************************************************************************)
SearchTasks == {"t1"}
SearchQueries == {"hello", "mail bob@x.io"}
SearchKs == {1, 2, 5}
Thresholds == {NoThreshold, <<0>>, <<similarity_threshold>>, <<-1>>}

NextSearch ==
    \/ \E t \in SearchTasks :
         \/ \E query \in SearchQueries, k \in SearchKs, threshold \in Thresholds :
               CallSimilaritySearch(t, query, k, threshold)
         \/ \E document_id \in DeleteIds : CallDeleteDocument(t, document_id)
         \/ \E file \in {"b.pdf"} : Upload(t, file)
    \/ \E t \in Tasks :
         \/ UploadRead(t)
         \/ Embed(t)
         \/ Execute(t)
         \/ DeleteScan(t)
         \/ DeleteKeys(t)
         \/ Finish(t)

SpecSearch == Init /\ [][NextSearch]_vars

(***************************************************************************)
(* Spec: the query pipeline, one request in flight at a time.              *)
(***************************************************************************)
QueryTasks == {"t1"}
QuerySessions == {"s1"}

Next ==
    \/ \E t \in QueryTasks, q \in QueryTexts, s \in QuerySessions, uc \in BOOLEAN :
          Submit(t, q, s, uc)
    \/ \E t \in Tasks : QueryValidateInput(t)
    \/ \E t \in Tasks : QueryMemoryRead(t)
    \/ \E t \in Tasks : QueryContext(t)
    \/ \E t \in Tasks : QueryGenerate(t)
    \/ \E t \in Tasks : QueryValidateOutput(t)
    \/ \E t \in Tasks : AddLPush(t)
    \/ \E t \in Tasks : AddLTrim(t)
    \/ \E t \in Tasks : AddExpire(t)
    \/ \E t \in Tasks : AddFail(t)
    \/ \E t \in Tasks : Finish(t)
    \/ Tick

Spec == Init /\ [][Next]_vars

(***************************************************************************)
(* SpecCancel: the query pipeline with requests whose task is cancelled.   *)
(***************************************************************************)
NextCancel ==
    \/ Next
    \/ \E t \in Tasks : Cancel(t)

SpecCancel == Init /\ [][NextCancel]_vars

(***************************************************************************)
(* SpecMem: concurrent direct calls of the MemoryService methods on one    *)
(* session.                                                                *)
(***************************************************************************)
MemSessions == {"s1"}

InitMem ==
    /\ Init
    /\ index = << >>

NextMem ==
    \/ \E t \in Tasks, s \in MemSessions, x \in ExchangeTexts :
          CallAddShort(t, s, x[1], x[2])
    \/ \E t \in Tasks, s \in MemSessions : CallGetShort(t, s)
    \/ \E t \in Tasks, s \in MemSessions, x \in SummaryTexts : CallAddLong(t, s, x)
    \/ \E t \in Tasks, s \in MemSessions : CallGetLong(t, s)
    \/ \E t \in Tasks, s \in MemSessions : ClearSession(t, s)
    \/ \E t \in Tasks : AddLPush(t)
    \/ \E t \in Tasks : AddLTrim(t)
    \/ \E t \in Tasks : AddExpire(t)
    \/ \E t \in Tasks : AddFail(t)
    \/ \E t \in Tasks : AddLongLPush(t)
    \/ \E t \in Tasks : AddLongExpire(t)
    \/ \E t \in Tasks : AddLongFail(t)
    \/ \E t \in Tasks : Finish(t)
    \/ Tick

SpecMem == InitMem /\ [][NextMem]_vars

(***************************************************************************)
(* SpecExpiry: the same calls without clear_session, so that a key only    *)
(* goes away by expiring.                                                  *)
(***************************************************************************)
NextExpiry ==
    \/ \E t \in Tasks, s \in MemSessions, x \in ExchangeTexts :
          CallAddShort(t, s, x[1], x[2])
    \/ \E t \in Tasks, s \in MemSessions : CallGetShort(t, s)
    \/ \E t \in Tasks, s \in MemSessions, x \in SummaryTexts : CallAddLong(t, s, x)
    \/ \E t \in Tasks, s \in MemSessions : CallGetLong(t, s)
    \/ \E t \in Tasks : AddLPush(t)
    \/ \E t \in Tasks : AddLTrim(t)
    \/ \E t \in Tasks : AddExpire(t)
    \/ \E t \in Tasks : AddFail(t)
    \/ \E t \in Tasks : AddLongLPush(t)
    \/ \E t \in Tasks : AddLongExpire(t)
    \/ \E t \in Tasks : AddLongFail(t)
    \/ \E t \in Tasks : Finish(t)
    \/ Tick

SpecExpiry == InitMem /\ [][NextExpiry]_vars

(***************************************************************************)
(* SpecIso: requests and direct MemoryService calls on two sessions, one   *)
(* call at a time, within the lifetime of the keys (no key times out).     *)
(***************************************************************************)
IsoTasks == {"t1"}
IsoQueryTexts == {"hello"}

NextIso ==
    \/ \E t \in IsoTasks, q \in IsoQueryTexts, s \in Sessions : Submit(t, q, s, FALSE)
    \/ \E t \in IsoTasks, s \in Sessions, x \in ExchangeTexts :
          CallAddShort(t, s, x[1], x[2])
    \/ \E t \in IsoTasks, s \in Sessions : CallGetShort(t, s)
    \/ \E t \in IsoTasks, s \in Sessions, x \in SummaryTexts : CallAddLong(t, s, x)
    \/ \E t \in IsoTasks, s \in Sessions : CallGetLong(t, s)
    \/ \E t \in IsoTasks, s \in Sessions : ClearSession(t, s)
    \/ \E t \in Tasks : QueryValidateInput(t)
    \/ \E t \in Tasks : QueryMemoryRead(t)
    \/ \E t \in Tasks : QueryContext(t)
    \/ \E t \in Tasks : QueryGenerate(t)
    \/ \E t \in Tasks : QueryValidateOutput(t)
    \/ \E t \in Tasks : AddLPush(t)
    \/ \E t \in Tasks : AddLTrim(t)
    \/ \E t \in Tasks : AddExpire(t)
    \/ \E t \in Tasks : AddFail(t)
    \/ \E t \in Tasks : AddLongLPush(t)
    \/ \E t \in Tasks : AddLongExpire(t)
    \/ \E t \in Tasks : AddLongFail(t)
    \/ \E t \in Tasks : Finish(t)

SpecIso == InitMem /\ [][NextIso]_vars

(***************************************************************************)
(* SpecGuard: direct calls of the two validators on every text of the      *)
(* table and requests whose query holds PII or a blocked pattern, one call *)
(* at a time.                                                              *)
(***************************************************************************)
GuardTexts == DOMAIN TextInfo
GuardQueryTexts == {"mail bob@x.io", "my password is 12345", "   "}

NextGuard ==
    \/ \E t \in QueryTasks, text \in GuardTexts : CallValidateInput(t, text)
    \/ \E t \in QueryTasks, text \in GuardTexts : CallValidateOutput(t, text)
    \/ \E t \in QueryTasks, q \in GuardQueryTexts, s \in QuerySessions :
          Submit(t, q, s, FALSE)
    \/ \E t \in Tasks : QueryValidateInput(t)
    \/ \E t \in Tasks : QueryMemoryRead(t)
    \/ \E t \in Tasks : QueryContext(t)
    \/ \E t \in Tasks : QueryGenerate(t)
    \/ \E t \in Tasks : QueryValidateOutput(t)
    \/ \E t \in Tasks : AddLPush(t)
    \/ \E t \in Tasks : AddLTrim(t)
    \/ \E t \in Tasks : AddExpire(t)
    \/ \E t \in Tasks : AddFail(t)
    \/ \E t \in Tasks : Finish(t)

SpecGuard == InitMem /\ [][NextGuard]_vars

(***************************************************************************)
(* SpecPrompt: direct calls of LLMService.generate_response with the       *)
(* histories get_short_term_memory returns for a session of up to          *)
(* MaxExchanges exchanges.                                                 *)
(***************************************************************************)
ErrGenerate == "Error generating LLM response"

\* the sequences of n message pairs a session may hold, oldest first
RECURSIVE PairsOf(_)
PairsOf(n) ==
    IF n = 0 THEN {<< >>}
    ELSE {Append(pairs, [timestamp |-> n, user |-> user, ai |-> ai]) :
             pairs \in PairsOf(n - 1), user \in QueryTexts, ai \in {"Sure."}}

\* memory_service.py lines 97-111 on such a session
HistoryOf(pairs) == Flatten([i \in 1..Len(pairs) |-> Turns(pairs[i])])
Histories == UNION {{HistoryOf(pairs) : pairs \in PairsOf(n)} : n \in 0..MaxExchanges}

\* llm_service.py lines 72-94: the prompt is built, then the model is awaited
CallGenerateResponse(t, query, conversation_history) ==
    /\ CanStart(t)
    /\ LET prompt == Prompt(query, << >>, conversation_history)
       IN task' = [task EXCEPT ![t] =
             [IdleTask EXCEPT !.op = "generate_response", !.pc = "ainvoke",
                              !.query = query,
                              !.conversation_history = conversation_history,
                              !.prompt_context = prompt.context,
                              !.chat_history = prompt.chat_history]]
    /\ UNCHANGED <<mem, index, uuids, clock, hist, dirty>>

\* lines 108-118
GenerateReturn(t) ==
    /\ task[t].op = "generate_response"
    /\ task[t].pc = "ainvoke"
    /\ \/ \E text \in OutputTexts :
             task' = [task EXCEPT ![t].pc = "returned", ![t].response = text,
                                  ![t].llm_calls = @ + 1]
       \/ \E e \in ExceptionTexts :
             task' = [task EXCEPT ![t].pc = "ERROR", ![t].error = <<e>>,
                                  ![t].log = @ \cup {ErrGenerate},
                                  ![t].llm_calls = @ + 1]
    /\ UNCHANGED <<mem, index, uuids, clock, hist, dirty>>

PromptTasks == {"t1"}

NextPrompt ==
    \/ \E t \in PromptTasks :
         \E query \in QueryTexts, conversation_history \in Histories :
             CallGenerateResponse(t, query, conversation_history)
    \/ \E t \in Tasks :
         \/ GenerateReturn(t)
         \/ Finish(t)

SpecPrompt == InitMem /\ [][NextPrompt]_vars

(***************************************************************************)
(* SpecTurns: requests in flight together on one session, which may hold   *)
(* an exchange of an earlier request.  The requests finish within the      *)
(* time to live of the session's key.                                      *)
(***************************************************************************)
PriorPair == [timestamp |-> 0, user |-> "hello", ai |-> "Sure."]

\* the store after the turn that left PriorPair: lines 56-78
PriorMem ==
    Expire(LPush([k \in MemKeys |-> NoKey], StmKey("s1"), PriorPair),
           StmKey("s1"), short_term_memory_ttl)

InitTurns ==
    /\ \/ mem = [k \in MemKeys |-> NoKey] /\ hist = [s \in Sessions |-> << >>]
       \/ mem = PriorMem /\ hist = [s \in Sessions |->
                                      IF s = "s1" THEN <<PriorPair>> ELSE << >>]
    /\ index = << >>
    /\ uuids = << >>
    /\ task = [t \in Tasks |-> IdleTask]
    /\ clock = 1
    /\ dirty = [s \in Sessions |-> FALSE]

NextTurns ==
    \/ \E t \in Tasks, q \in IsoQueryTexts, s \in QuerySessions :
          Submit(t, q, s, FALSE)
    \/ \E t \in Tasks : QueryValidateInput(t)
    \/ \E t \in Tasks : QueryMemoryRead(t)
    \/ \E t \in Tasks : QueryContext(t)
    \/ \E t \in Tasks : QueryGenerate(t)
    \/ \E t \in Tasks : QueryValidateOutput(t)
    \/ \E t \in Tasks : AddLPush(t)
    \/ \E t \in Tasks : AddLTrim(t)
    \/ \E t \in Tasks : AddExpire(t)
    \/ \E t \in Tasks : AddFail(t)
    \/ \E t \in Tasks : Finish(t)

SpecTurns == InitTurns /\ [][NextTurns]_vars

(***************************************************************************)
(* Properties.                                                             *)
(***************************************************************************)
IsPrefix(a, b) == Len(a) <= Len(b) /\ SubSeq(b, 1, Len(a)) = a
Last(xs) == xs[Len(xs)]
Occurs(x, xs) == \E i \in 1..Len(xs) : xs[i] = x

IsQuery(t) == task[t].op = "query"
Validated(t) == IsQuery(t) /\ task[t].pc # "validate_input"
ShortList(s) == mem[StmKey(s)].list
LongList(s) == mem[LtmKey(s)].list

\* the order of the stages in the specification's state machine
ClaimedOrder ==
    <<"RECEIVED", "INPUT_VALIDATED", "CONTEXT_RETRIEVED", "MEMORY_READ",
      "GENERATED", "OUTPUT_VALIDATED", "MEMORY_WRITTEN", "DONE">>
\* the order of the awaits in main.query
CodeOrder ==
    <<"RECEIVED", "INPUT_VALIDATED", "MEMORY_READ", "CONTEXT_RETRIEVED",
      "GENERATED", "OUTPUT_VALIDATED", "MEMORY_WRITTEN", "DONE">>

\* a request went from `from` to `to` in this step
Moved(t, from, to) == task[t].pc = from /\ task'[t].pc = to

(***************************************************************************)
(* C1.  A request whose input validation returned passed=false answers     *)
(* with the validator's message and guardrails_passed=false, and runs no   *)
(* later stage: no memory read, no search, no LLM call, no output          *)
(* validation, no memory write; the step that blocks it leaves the store   *)
(* as it was.                                                              *)
(***************************************************************************)
C1_Blocked(t) == Validated(t) /\ ~task[t].guardrails_result.passed

C1_InputBlockStops ==
    /\ [](\A t \in Tasks : C1_Blocked(t) =>
            /\ task[t].pc = "DONE"
            /\ task[t].result.status = 200
            /\ task[t].result.response = task[t].guardrails_result.message
            /\ task[t].result.response \in {MsgInputTooLong, MsgInputEmpty, MsgInputUnsafe}
            /\ task[t].result.guardrails_passed = FALSE
            /\ task[t].trace = <<"RECEIVED", "INPUT_VALIDATED", "DONE">>
            /\ task[t].llm_calls = 0
            /\ task[t].conversation_history = << >>
            /\ task[t].context_docs = << >>
            /\ task[t].output_guardrails = NoVerdict
            /\ task[t].message_pair = NoPair)
    /\ [][\A t \in Tasks :
            (Moved(t, "validate_input", "DONE") \/
             (C1_Blocked(t) /\ task'[t] # task[t]))
                => mem' = mem /\ hist' = hist]_vars

C1_Witness ==
    \E t \in Tasks :
        /\ C1_Blocked(t)
        /\ task[t].pc = "DONE"
        /\ ShortList(task[t].session_id) # << >>

PcAfter(stage) ==
    CASE stage = "RECEIVED" -> {"validate_input"}
      [] stage = "INPUT_VALIDATED" -> {"get_short_term_memory"}
      [] stage = "MEMORY_READ" -> {"similarity_search"}
      [] stage = "CONTEXT_RETRIEVED" -> {"generate_response"}
      [] stage = "GENERATED" -> {"validate_output"}
      [] stage = "OUTPUT_VALIDATED" -> {"add_lpush", "add_ltrim", "add_expire"}
      [] stage = "DONE" -> {"DONE"}
      [] stage = "ERROR" -> {"ERROR"}
      [] OTHER -> {}

C3_OutputBlocked(t) ==
    /\ IsQuery(t)
    /\ task[t].output_guardrails # NoVerdict
    /\ ~task[t].output_guardrails.passed

C3_RefusalStoredAndReturned ==
    /\ [](\A t \in Tasks : C3_OutputBlocked(t) =>
            /\ task[t].pc \in {"add_lpush", "add_ltrim", "add_expire", "DONE"}
            /\ task[t].response = task[t].output_guardrails.message
            /\ task[t].response \in {MsgOutputTooLong, MsgOutputUnsafe, MsgOutputPii}
            /\ task[t].response \notin OutputTexts
            /\ task[t].message_pair # NoPair =>
                  /\ task[t].message_pair.ai = task[t].response
                  /\ task[t].message_pair.user = task[t].query
            /\ task[t].pc = "DONE" =>
                  /\ task[t].result.status = 200
                  /\ task[t].result.response = task[t].response
                  /\ task[t].result.guardrails_passed = FALSE
                  /\ Occurs("MEMORY_WRITTEN", task[t].trace))
    /\ [](\A t \in Tasks :
            (IsQuery(t) /\ task[t].pc = "DONE" /\ task[t].message_pair # NoPair) =>
                task[t].message_pair.ai = task[t].result.response)
    /\ [][\A t \in Tasks :
            (C3_OutputBlocked(t) /\ Moved(t, "add_lpush", "add_ltrim")) =>
                /\ Head(mem'[StmKey(task[t].session_id)].list).ai
                      = task[t].output_guardrails.message
                /\ Head(mem'[StmKey(task[t].session_id)].list).user = task[t].query]_vars

C3_Witness ==
    \E t \in Tasks :
        /\ C3_OutputBlocked(t)
        /\ task[t].pc = "DONE"
        /\ ShortList(task[t].session_id) # << >>
        /\ Head(ShortList(task[t].session_id)) = task[t].message_pair
        /\ task[t].message_pair.ai = MsgOutputPii

(***************************************************************************)
(* C4.  As claimed, for requests that logged no error: every request that  *)
(* passed input validation and whose LLM call succeeded has appended its   *)
(* exchange, and one that started on an empty session with                 *)
(* use_context=false answers with guardrails_passed=true and no sources.   *)
(***************************************************************************)
C4_OriginalClaim ==
    \A t \in Tasks :
        (IsQuery(t) /\ task[t].pc = "DONE" /\ task[t].guardrails_result.passed
            /\ task[t].log = {}) =>
            /\ task[t].message_pair # NoPair
            /\ (task[t].empty_at_start /\ ~task[t].use_context) =>
                  /\ task[t].result.guardrails_passed = TRUE
                  /\ task[t].result.sources = << >>

(***************************************************************************)
(* C4, amended.  Every request that passed input validation, whose LLM     *)
(* call succeeded and whose memory write did not fail has pushed exactly   *)
(* one exchange (its query, its final answer text) on the session's        *)
(* short-term list, whatever output validation said; starting from an      *)
(* empty session with use_context=false the session then holds exactly     *)
(* that one exchange, the reply has no sources and its guardrails_passed   *)
(* is the verdict of output validation.                                    *)
(***************************************************************************)
C4_Recorded(r) ==
    /\ r.op = "query"
    /\ r.pc = "DONE"
    /\ r.guardrails_result.passed
    /\ ErrShortAdd \notin r.log

C4_TurnRecorded ==
    /\ [](\A t \in Tasks : C4_Recorded(task[t]) =>
            /\ task[t].message_pair.timestamp > 0
            /\ task[t].message_pair.user = task[t].query
            /\ task[t].message_pair.ai = task[t].result.response
            /\ task[t].result.guardrails_passed = task[t].output_guardrails.passed)
    /\ [][\A t \in Tasks :
            (IsQuery(t) /\ task'[t] # task[t]) =>
                IF Moved(t, "add_lpush", "add_ltrim")
                THEN mem' = [mem EXCEPT ![StmKey(task[t].session_id)].list =
                                <<task'[t].message_pair>> \o @]
                ELSE \A k \in MemKeys : Len(mem'[k].list) <= Len(mem[k].list)]_vars
    /\ [][\A t \in Tasks :
            (task[t].pc # "DONE" /\ C4_Recorded(task'[t])
                /\ task[t].empty_at_start /\ ~task[t].use_context) =>
                /\ mem'[StmKey(task[t].session_id)].list = <<task'[t].message_pair>>
                /\ task'[t].result.sources = << >>]_vars

C4_Witness ==
    \E t \in Tasks :
        /\ C4_Recorded(task[t])
        /\ task[t].empty_at_start
        /\ ~task[t].use_context
        /\ task[t].log = {}
        /\ task[t].result.guardrails_passed
        /\ ShortList(task[t].session_id) = <<task[t].message_pair>>

(***************************************************************************)
(* C5.  A failed LLM call ends the request with an error and no answer;    *)
(* the handler calls the model at most once per request, and after the     *)
(* failure neither output validation nor the memory write runs.            *)
(***************************************************************************)
C5_LlmFailureFatal ==
    /\ [](\A t \in Tasks : IsQuery(t) =>
            /\ task[t].llm_calls <= 1
            /\ task[t].pc = "ERROR" =>
                  /\ task[t].result.status = 500
                  /\ task[t].llm_calls = 1
                  /\ task[t].response = None
                  /\ task[t].output_guardrails = NoVerdict
                  /\ task[t].message_pair = NoPair
                  /\ task[t].trace = SubSeq(CodeOrder, 1, 4) \o <<"ERROR">>)
    /\ [][\A t \in Tasks :
            /\ Moved(t, "generate_response", "ERROR") => mem' = mem
            /\ (Moved(t, "generate_response", "generate_response")
                   => task'[t] = task[t])
            /\ (task[t].pc = "ERROR" /\ task'[t] # task[t])
                   => (task'[t] = IdleTask /\ mem' = mem)]_vars

C5_Witness ==
    \E t \in Tasks : IsQuery(t) /\ task[t].pc = "ERROR" /\ task[t].llm_calls = 1

(***************************************************************************)
(* C6.  As claimed: no chunk whose similarity is below the configured      *)
(* similarity threshold reaches the prompt context or the sources of a     *)
(* reply.                                                                  *)
(***************************************************************************)
C6_ThresholdApplied ==
    \A t \in Tasks : IsQuery(t) =>
        /\ \A i \in 1..Len(task[t].context_docs) :
              task[t].context_docs[i].metadata.score >= similarity_threshold
        /\ (task[t].pc = "DONE" /\ task[t].result.sources # << >>) =>
              \A i \in 1..Len(task[t].result.sources[1]) :
                  task[t].result.sources[1][i].score >= similarity_threshold

(***************************************************************************)
(* C7.  A failed similarity search never ends the request: the context is  *)
(* empty, the request goes on through generation, output validation and    *)
(* memory write, and its reply carries an answer and no sources (only a    *)
(* failed LLM call can still end it with an error).                        *)
(***************************************************************************)
C7_SearchFailed(t) == IsQuery(t) /\ ErrSearch \in task[t].log

C7_SearchFailsOpen ==
    /\ [](\A t \in Tasks : C7_SearchFailed(t) =>
            /\ task[t].context_docs = << >>
            /\ Occurs("MEMORY_READ", task[t].trace)
            /\ Occurs("CONTEXT_RETRIEVED", task[t].trace)
            /\ task[t].pc = "ERROR" => task[t].llm_calls = 1
            /\ task[t].pc = "DONE" =>
                  /\ task[t].trace = CodeOrder
                  /\ task[t].result.status = 200
                  /\ task[t].result.response = task[t].response
                  /\ task[t].result.sources = << >>)
    /\ [][\A t \in Tasks :
            (IsQuery(t) /\ task[t].pc = "similarity_search" /\ task'[t] # task[t])
                => task'[t].pc = "generate_response"]_vars

C7_Witness ==
    \E t \in Tasks :
        /\ C7_SearchFailed(t)
        /\ task[t].use_context
        /\ task[t].pc = "DONE"
        /\ task[t].message_pair # NoPair

(***************************************************************************)
(* C8.  After n appends to a session (none of them failed at its trim, no  *)
(* expiry, no clear, none still between its push and its return),          *)
(* get_short_term_memory returns the min(n, cap) most recently pushed      *)
(* exchanges, oldest first, each as a user turn followed by its assistant  *)
(* turn; reads leave the store as it is.                                   *)
(***************************************************************************)
C8_Quiescent(s) ==
    \A t \in Tasks :
        ~(task[t].session_id = s /\ task[t].pc \in {"add_ltrim", "add_expire"})

C8_Expected(s) ==
    LET n == Len(hist[s])
        m == IF n < max_short_term_messages THEN n ELSE max_short_term_messages
    IN [i \in 1..(2 * m) |->
           LET pair == hist[s][n - m + ((i + 1) \div 2)]
           IN IF i % 2 = 1
              THEN [role |-> "user", content |-> pair.user,
                    timestamp |-> pair.timestamp]
              ELSE [role |-> "assistant", content |-> pair.ai,
                    timestamp |-> pair.timestamp]]

C8_WindowKeepsNewest ==
    /\ [](\A s \in Sessions : (C8_Quiescent(s) /\ ~dirty[s]) =>
            /\ get_short_term_memory(mem, s, FALSE) = C8_Expected(s)
            /\ Len(ShortList(s)) <= max_short_term_messages)
    /\ [](\A t \in Tasks :
            (task[t].op = "get_short" /\ task[t].pc = "returned") =>
                /\ Len(task[t].read) % 2 = 0
                /\ \A i \in 1..Len(task[t].read) :
                      /\ task[t].read[i].role = IF i % 2 = 1 THEN "user" ELSE "assistant"
                      /\ i % 2 = 0 => task[t].read[i].timestamp = task[t].read[i - 1].timestamp
                      /\ (i % 2 = 1 /\ i > 1) =>
                            task[t].read[i].timestamp > task[t].read[i - 1].timestamp)
    /\ [][\A t \in Tasks :
            (task[t].pc = "idle" /\ task'[t].op \in {"get_short", "get_long"}) =>
                /\ mem' = mem
                /\ (task'[t].op = "get_short" /\ task'[t].log = {}
                       /\ C8_Quiescent(task'[t].session_id)
                       /\ ~dirty[task'[t].session_id]) =>
                      task'[t].read = C8_Expected(task'[t].session_id)]_vars

C8_Witness ==
    \E s \in Sessions, t \in Tasks :
        /\ C8_Quiescent(s)
        /\ ~dirty[s]
        /\ Len(hist[s]) > max_short_term_messages
        /\ Len(ShortList(s)) = max_short_term_messages
        /\ task[t].op = "get_short"
        /\ task[t].session_id = s
        /\ task[t].pc = "returned"
        /\ Len(task[t].read) = 2 * max_short_term_messages
        /\ task[t].read = C8_Expected(s)

(***************************************************************************)
(* C9.  As claimed: a reader of a session none of whose appends failed     *)
(* never gets more than cap exchanges (2 * cap turns), however its read is *)
(* interleaved with concurrent appends.                                    *)
(***************************************************************************)
C9_ReaderWithinCap ==
    [][\A t \in Tasks :
          (task[t].pc = "idle" /\ task'[t].op = "get_short"
              /\ ~dirty[task'[t].session_id]) =>
              Len(task'[t].read) <= 2 * max_short_term_messages]_vars

(***************************************************************************)
(* C10.  A clear_session whose DEL did not fail leaves both tiers of the   *)
(* session empty at once, whatever they held and whatever TTL they had:    *)
(* reading either tier right after returns nothing.  Clearing a session    *)
(* that holds nothing returns normally and changes nothing.  Other         *)
(* sessions are untouched, and only a later push makes a tier non-empty    *)
(* again.                                                                  *)
(***************************************************************************)
C10_ClearStep(t) == task[t].pc = "idle" /\ task'[t].op = "clear"

C10_ClearEmptiesBothTiers ==
    /\ [][\A t \in Tasks : C10_ClearStep(t) =>
            LET s == task'[t].session_id
            IN /\ task'[t].pc = "returned"
               /\ task'[t].log = {} =>
                     /\ mem'[StmKey(s)] = NoKey
                     /\ mem'[LtmKey(s)] = NoKey
                     /\ get_short_term_memory(mem', s, FALSE) = << >>
                     /\ get_long_term_memory(mem', s, FALSE) = << >>
               /\ (mem[StmKey(s)] = NoKey /\ mem[LtmKey(s)] = NoKey) => mem' = mem
               /\ \A k \in MemKeys \ {StmKey(s), LtmKey(s)} : mem'[k] = mem[k]]_vars
    /\ [][\A k \in MemKeys :
            (mem[k].list = << >> /\ mem'[k].list # << >>) =>
                \E t \in Tasks :
                    \/ Moved(t, "add_lpush", "add_ltrim")
                    \/ Moved(t, "ltm_lpush", "ltm_expire")]_vars

C10_Witness ==
    \E t, u \in Tasks :
        /\ task[t].op = "clear" /\ task[t].pc = "returned"
        /\ task[t].read = <<2>>
        /\ task[u].op = "clear" /\ task[u].pc = "returned"
        /\ task[u].read = <<0>>
        /\ task[u].session_id = task[t].session_id
        /\ ShortList(task[t].session_id) = << >>
        /\ LongList(task[t].session_id) = << >>

(***************************************************************************)
(* C11.  The tiers expire independently.  The step that completes an       *)
(* append to short-term memory sets the remaining time of the session's    *)
(* short-term key to short_term_memory_ttl and no step of that append      *)
(* touches the long-term key (content or remaining time); the step that    *)
(* completes an append to long-term memory sets the long-term key's        *)
(* remaining time to long_term_memory_ttl and no step of it touches the    *)
(* short-term key.                                                         *)
(***************************************************************************)
C11_ShortStep(t) ==
    /\ task[t].pc \in {"add_lpush", "add_ltrim", "add_expire"}
    /\ task'[t] # task[t]

C11_LongStep(t) ==
    /\ task[t].pc \in {"ltm_lpush", "ltm_expire"}
    /\ task'[t] # task[t]

C11_TiersExpireIndependently ==
    [][\A t \in Tasks :
          LET s == task[t].session_id
          IN /\ C11_ShortStep(t) => mem'[LtmKey(s)] = mem[LtmKey(s)]
             /\ C11_LongStep(t) => mem'[StmKey(s)] = mem[StmKey(s)]
             /\ (C11_ShortStep(t) /\ task[t].pc = "add_expire"
                    /\ ErrShortAdd \notin task'[t].log
                    /\ mem[StmKey(s)].list # << >>) =>
                   /\ mem'[StmKey(s)].ttl = short_term_memory_ttl
                   /\ mem'[StmKey(s)].list = mem[StmKey(s)].list
             /\ (C11_LongStep(t) /\ task[t].pc = "ltm_expire"
                    /\ ErrLongAdd \notin task'[t].log
                    /\ mem[LtmKey(s)].list # << >>) =>
                   /\ mem'[LtmKey(s)].ttl = long_term_memory_ttl
                   /\ mem'[LtmKey(s)].list = mem[LtmKey(s)].list]_vars

C11_Witness ==
    \E t \in Tasks :
        LET s == task[t].session_id
        IN /\ task[t].op = "add_short"
           /\ task[t].pc = "returned"
           /\ task[t].log = {}
           /\ mem[StmKey(s)].ttl = short_term_memory_ttl
           /\ mem[LtmKey(s)].list # << >>
           /\ mem[LtmKey(s)].ttl > 0
           /\ mem[LtmKey(s)].ttl < long_term_memory_ttl

(***************************************************************************)
(* C12.  As claimed: whenever no append on a memory key is in progress, a  *)
(* key that holds something has an expiration set.                         *)
(***************************************************************************)
C12_AppendInProgress(k) ==
    \E t \in Tasks :
        \/ k = StmKey(task[t].session_id) /\ task[t].pc \in {"add_ltrim", "add_expire"}
        \/ k = LtmKey(task[t].session_id) /\ task[t].pc = "ltm_expire"

C12_EveryKeyExpires ==
    \A k \in MemKeys :
        (~C12_AppendInProgress(k) /\ mem[k].list # << >>) => mem[k].ttl > 0

(***************************************************************************)
(* C13.  A tier whose remaining time runs out reads back as empty from     *)
(* then on without any call of the service; what a short-term read         *)
(* returns is always made of exchanges pushed since the key last came      *)
(* into existence, newest last; and the first push after the key went      *)
(* away leaves a list that holds the new exchange only.                    *)
(***************************************************************************)
C13_IsSuffix(a, b) ==
    Len(a) <= Len(b) /\ SubSeq(b, Len(b) - Len(a) + 1, Len(b)) = a

C13_ExpiredReadsEmpty ==
    /\ [](\A s \in Sessions : C13_IsSuffix(Reversed(ShortList(s)), hist[s]))
    /\ [][\A s \in Sessions :
            /\ (task' = task /\ mem[StmKey(s)].ttl = 1) =>
                  /\ mem'[StmKey(s)] = NoKey
                  /\ hist'[s] = << >>
                  /\ get_short_term_memory(mem', s, FALSE) = << >>
            /\ (task' = task /\ mem[LtmKey(s)].ttl = 1) =>
                  /\ mem'[LtmKey(s)] = NoKey
                  /\ get_long_term_memory(mem', s, FALSE) = << >>]_vars
    /\ [][\A t \in Tasks :
            /\ (Moved(t, "add_lpush", "add_ltrim")
                   /\ mem[StmKey(task[t].session_id)].list = << >>) =>
                  /\ mem'[StmKey(task[t].session_id)].list = <<task'[t].message_pair>>
                  /\ get_short_term_memory(mem', task[t].session_id, FALSE)
                        = Turns(task'[t].message_pair)
            /\ (task[t].pc = "idle" /\ task'[t].op = "get_short"
                   /\ mem[StmKey(task'[t].session_id)].list = << >>) =>
                  task'[t].read = << >>
            /\ (task[t].pc = "idle" /\ task'[t].op = "get_long"
                   /\ mem[LtmKey(task'[t].session_id)].list = << >>) =>
                  task'[t].read = << >>]_vars

C13_Witness ==
    \E t \in Tasks :
        LET s == task[t].session_id
        IN /\ task[t].op = "get_short"
           /\ task[t].pc = "returned"
           /\ Len(task[t].read) = 2
           /\ Len(ShortList(s)) = 1
           /\ hist[s] = ShortList(s)
           /\ task[t].read[1].timestamp < Head(ShortList(s)).timestamp
           /\ get_short_term_memory(mem, s, FALSE) = Turns(Head(ShortList(s)))

(***************************************************************************)
(* C14.  The memory service fails open.  A read whose store call raises    *)
(* returns the empty sequence; a request whose memory read failed goes on   *)
(* with an empty history; a request whose memory write failed still        *)
(* returns its answer (the generated text or the refusal) with status 200. *)
(***************************************************************************)
C14_MemoryFailsOpen ==
    /\ [](\A s \in Sessions :
            /\ get_short_term_memory(mem, s, TRUE) = << >>
            /\ get_long_term_memory(mem, s, TRUE) = << >>)
    /\ [](\A t \in Tasks : IsQuery(t) =>
            /\ ErrShortRead \in task[t].log =>
                  /\ Occurs("MEMORY_READ", task[t].trace)
                  /\ task[t].pc = "ERROR" => task[t].llm_calls = 1
            /\ ErrShortAdd \in task[t].log =>
                  /\ task[t].pc = "DONE"
                  /\ task[t].trace = CodeOrder
                  /\ task[t].result.status = 200
                  /\ task[t].response # None
                  /\ task[t].result.response = task[t].response
                  /\ task[t].result.guardrails_passed = task[t].output_guardrails.passed
                  /\ task[t].response \in
                        (IF task[t].output_guardrails.passed THEN OutputTexts
                         ELSE {MsgOutputTooLong, MsgOutputUnsafe, MsgOutputPii}))
    /\ [][\A t \in Tasks : IsQuery(t) =>
            /\ (Moved(t, "get_short_term_memory", "similarity_search")
                   /\ ErrShortRead \in task'[t].log) =>
                  /\ task'[t].conversation_history = << >>
                  /\ mem' = mem
            /\ (task[t].pc \in {"add_lpush", "add_ltrim", "add_expire"}
                   /\ task'[t] # task[t]) =>
                  task'[t].pc \in {"add_ltrim", "add_expire", "DONE"}]_vars

C14_Witness ==
    \E t \in Tasks :
        /\ IsQuery(t)
        /\ task[t].pc = "DONE"
        /\ {ErrShortRead, ErrShortAdd} \subseteq task[t].log
        /\ ~task[t].empty_at_start
        /\ task[t].result.status = 200
        /\ task[t].result.response \in OutputTexts

(***************************************************************************)
(* C15.  Sessions are isolated.  No step of a call made for session A      *)
(* changes the keys of another session B, so what get_short_term_memory    *)
(* and get_long_term_memory return for B stays the same; a read for B      *)
(* returns what B's own keys hold, and every turn it returns, or that a    *)
(* request for B takes as its conversation history, comes from an exchange *)
(* pushed by a call made for B.                                            *)
(***************************************************************************)
C15_SessionOf(t) ==
    IF task[t].pc = "idle" THEN task'[t].session_id ELSE task[t].session_id

C15_WrittenUnder(s, turns) ==
    \A i \in 1..Len(turns) :
        \E j \in 1..Len(hist[s]) :
            /\ turns[i].timestamp = hist[s][j].timestamp
            /\ turns[i].content =
                  IF turns[i].role = "user" THEN hist[s][j].user ELSE hist[s][j].ai

C15_SessionsIsolated ==
    /\ [][\A t \in Tasks : task'[t] # task[t] =>
            \A b \in Sessions \ {C15_SessionOf(t)} :
                /\ mem'[StmKey(b)] = mem[StmKey(b)]
                /\ mem'[LtmKey(b)] = mem[LtmKey(b)]
                /\ hist'[b] = hist[b]
                /\ get_short_term_memory(mem', b, FALSE)
                      = get_short_term_memory(mem, b, FALSE)
                /\ get_long_term_memory(mem', b, FALSE)
                      = get_long_term_memory(mem, b, FALSE)]_vars
    /\ [][\A t \in Tasks :
            LET b == task'[t].session_id
            IN /\ (task[t].pc = "idle" /\ task'[t].op = "get_short"
                      /\ task'[t].log = {}) =>
                     /\ task'[t].read =
                           Flatten([i \in 1..Len(mem[StmKey(b)].list) |->
                              Turns(mem[StmKey(b)].list[Len(mem[StmKey(b)].list) + 1 - i])])
                     /\ C15_WrittenUnder(b, task'[t].read)
               /\ (task[t].pc = "idle" /\ task'[t].op = "get_long"
                      /\ task'[t].log = {}) =>
                     task'[t].read = Reversed(mem[LtmKey(b)].list)
               /\ Moved(t, "get_short_term_memory", "similarity_search") =>
                     C15_WrittenUnder(b, task'[t].conversation_history)]_vars

C15_Witness ==
    \E t \in Tasks :
        /\ task[t].op = "get_short"
        /\ task[t].pc = "returned"
        /\ task[t].session_id = "s2"
        /\ Len(task[t].read) = 2
        /\ ShortList("s2") = hist["s2"]
        /\ Len(ShortList("s1")) = 2
        /\ \A i \in 1..Len(ShortList("s1")) :
              ShortList("s1")[i].timestamp # task[t].read[1].timestamp

(***************************************************************************)
(* C16.  A request writes nothing before its memory-write stage: every     *)
(* step it takes before the push of add_to_short_term_memory leaves both   *)
(* tiers as they are, so a request that ends before that stage (cancelled  *)
(* while suspended, failed LLM call, blocked input) has created no         *)
(* exchange; and a cancelled request takes no further step.                *)
(***************************************************************************)
C16_StoppedEarly(t) ==
    /\ IsQuery(t)
    /\ task[t].pc \in {"CANCELLED", "ERROR", "DONE"}
    /\ ~Occurs("OUTPUT_VALIDATED", task[t].trace)

C16_NoWriteBeforeMemoryStage ==
    /\ [](\A t \in Tasks :
            /\ C16_StoppedEarly(t) => task[t].message_pair = NoPair
            /\ (IsQuery(t) /\ Occurs("CANCELLED", task[t].trace)) =>
                  /\ task[t].pc = "CANCELLED"
                  /\ Last(task[t].trace) = "CANCELLED"
                  /\ task[t].result = NoResult)
    /\ [][\A t \in Tasks :
            /\ (task'[t] # task[t] /\ (IsQuery(t) \/ task'[t].op = "query")
                   /\ task[t].pc \notin {"add_lpush", "add_ltrim", "add_expire"}) =>
                  /\ mem' = mem
                  /\ hist' = hist
            /\ (IsQuery(t) /\ task[t].pc = "CANCELLED") =>
                  /\ task'[t] \in {task[t], IdleTask}
                  /\ task'[t] # task[t] => mem' = mem]_vars

C16_Witness ==
    \E t \in Tasks :
        /\ C16_StoppedEarly(t)
        /\ task[t].pc = "CANCELLED"
        /\ task[t].trace = SubSeq(CodeOrder, 1, 4) \o <<"CANCELLED">>
        /\ ShortList(task[t].session_id) # << >>
        /\ ~task[t].empty_at_start

(***************************************************************************)
(* C17.  A request never writes the long-term tier: no step of a request,  *)
(* whatever its outcome, changes a long-term key (its entries or its       *)
(* remaining time), so get_long_term_memory returns the same before and    *)
(* after; a long-term list only grows by the push of                       *)
(* add_to_long_term_memory and its expiration is only set by that          *)
(* method's expire.                                                        *)
(***************************************************************************)
C17_QueryStep(t) ==
    /\ task'[t] # task[t]
    /\ IsQuery(t) \/ task'[t].op = "query"

C17_QueryLeavesLongTermAlone ==
    /\ [][\A t \in Tasks : C17_QueryStep(t) =>
            \A s \in Sessions :
                /\ mem'[LtmKey(s)] = mem[LtmKey(s)]
                /\ get_long_term_memory(mem', s, FALSE)
                      = get_long_term_memory(mem, s, FALSE)]_vars
    /\ [][\A s \in Sessions :
            /\ Len(mem'[LtmKey(s)].list) > Len(mem[LtmKey(s)].list) =>
                  \E t \in Tasks :
                      /\ task[t].op = "add_long"
                      /\ task[t].session_id = s
                      /\ Moved(t, "ltm_lpush", "ltm_expire")
            /\ mem'[LtmKey(s)].ttl > mem[LtmKey(s)].ttl =>
                  \E t \in Tasks :
                      /\ task[t].op = "add_long"
                      /\ task[t].session_id = s
                      /\ Moved(t, "ltm_expire", "returned")]_vars

C17_Witness ==
    \E t \in Tasks :
        /\ IsQuery(t)
        /\ task[t].pc = "DONE"
        /\ task[t].trace = CodeOrder
        /\ ShortList(task[t].session_id) # << >>
        /\ Head(ShortList(task[t].session_id)) = task[t].message_pair
        /\ Len(LongList(task[t].session_id)) = 1
        /\ Head(LongList(task[t].session_id)).timestamp < task[t].message_pair.timestamp
        /\ mem[LtmKey(task[t].session_id)].ttl = long_term_memory_ttl

(***************************************************************************)
(* C18.  validate_input, when no internal error occurs, blocks every text  *)
(* longer than max_input_length with the length message (whatever else     *)
(* the text holds), and returns exactly {passed: true}, with no warning    *)
(* and no message, for every text within the bound that is not blank,      *)
(* matches no blocked pattern and holds no PII.                            *)
(***************************************************************************)
C18_InputVerdict(t) ==
    /\ task[t].op \in {"validate_input", "query"}
    /\ task[t].guardrails_result # NoVerdict
    /\ ErrValidateInput \notin task[t].log

C18_Clean(text) ==
    /\ TextLen(text) <= max_input_length
    /\ Strip(text) # ""
    /\ \A i \in 1..Len(blocked_patterns) : ~SearchBlocked(blocked_patterns[i], text)
    /\ \A i \in 1..Len(pii_patterns) : ~SearchPii(pii_patterns[i], text)

C18_LengthBlocksCleanPasses ==
    \A t \in Tasks : C18_InputVerdict(t) =>
        /\ TextLen(task[t].query) > max_input_length =>
              task[t].guardrails_result
                  = [passed |-> FALSE, message |-> MsgInputTooLong]
        /\ C18_Clean(task[t].query) =>
              /\ task[t].guardrails_result = [passed |-> TRUE]
              /\ DOMAIN task[t].guardrails_result = {"passed"}

C18_Witness ==
    \E t \in Tasks :
        /\ C18_InputVerdict(t)
        /\ task[t].op = "validate_input"
        /\ task[t].query = "LONG_INPUT bypass"
        /\ task[t].guardrails_result.message = MsgInputTooLong

(***************************************************************************)
(* C19.  PII is handled differently by direction.  For a text within the   *)
(* length bounds that is not blank, matches no blocked pattern and holds   *)
(* PII, validate_input returns passed=true with a warning and pii_types    *)
(* naming exactly the kinds found (and a request with such a query runs    *)
(* its stages and stores its exchange as usual), while validate_output     *)
(* returns passed=false with the privacy refusal.                          *)
(***************************************************************************)
C19_PiiOnly(text) ==
    /\ TextLen(text) <= max_input_length
    /\ TextLen(text) <= max_output_length
    /\ Strip(text) # ""
    /\ \A i \in 1..Len(blocked_patterns) : ~SearchBlocked(blocked_patterns[i], text)
    /\ \E i \in 1..Len(pii_patterns) : SearchPii(pii_patterns[i], text)

C19_Kinds(types) == {types[i] : i \in 1..Len(types)}

C19_PiiWarnsInBlocksOut ==
    \A t \in Tasks : (task[t].query \in GuardTexts /\ C19_PiiOnly(task[t].query)) =>
        /\ C18_InputVerdict(t) =>
              /\ task[t].guardrails_result.passed
              /\ DOMAIN task[t].guardrails_result = {"passed", "warning", "pii_types"}
              /\ C19_Kinds(task[t].guardrails_result.pii_types)
                    = {k \in C19_Kinds(pii_patterns) : SearchPii(k, task[t].query)}
              /\ task[t].guardrails_result.warning[2]
                    = task[t].guardrails_result.pii_types
              /\ validate_output(task[t].query, FALSE)
                    = [passed |-> FALSE, message |-> MsgOutputPii]
        /\ (task[t].op = "validate_output" /\ ErrValidateOutput \notin task[t].log) =>
              task[t].output_guardrails = [passed |-> FALSE, message |-> MsgOutputPii]
        /\ (IsQuery(t) /\ C18_InputVerdict(t)) =>
              /\ IsPrefix(task[t].trace, CodeOrder)
                    \/ task[t].trace = SubSeq(CodeOrder, 1, 4) \o <<"ERROR">>
              /\ (task[t].pc = "DONE" /\ ErrShortAdd \notin task[t].log) =>
                    /\ task[t].trace = CodeOrder
                    /\ task[t].message_pair.user = task[t].query
                    /\ task[t].message_pair.ai = task[t].result.response

C19_Witness ==
    \E t \in Tasks :
        /\ IsQuery(t)
        /\ task[t].pc = "DONE"
        /\ task[t].query = "mail bob@x.io"
        /\ task[t].log = {}
        /\ task[t].guardrails_result.pii_types = <<"EMAIL">>
        /\ ShortList(task[t].session_id) # << >>
        /\ Head(ShortList(task[t].session_id)).user = "mail bob@x.io"
        /\ task[t].output_guardrails = [passed |-> FALSE, message |-> MsgOutputPii]
        /\ task[t].result.response = MsgOutputPii

(***************************************************************************)
(* C20.  The validators fail open.  When an internal error occurs inside   *)
(* validate_input or validate_output the verdict is exactly {passed:       *)
(* true}, whatever the text; a request whose validator faulted is neither  *)
(* refused at that stage nor ended with an error by it: it goes on, and    *)
(* only a failed LLM call can still end it with an error.                  *)
(***************************************************************************)
C20_ValidatorsFailOpen ==
    \A t \in Tasks :
        /\ ErrValidateInput \in task[t].log =>
              /\ task[t].guardrails_result = [passed |-> TRUE]
              /\ task[t].pc # "validate_input"
        /\ ErrValidateOutput \in task[t].log =>
              task[t].output_guardrails = [passed |-> TRUE]
        /\ (IsQuery(t) /\ ErrValidateInput \in task[t].log) =>
              /\ task[t].pc = "ERROR" => task[t].llm_calls = 1
              /\ task[t].pc = "DONE" =>
                    /\ task[t].trace = CodeOrder
                    /\ task[t].result.status = 200
                    /\ task[t].result.response \notin
                          {MsgInputTooLong, MsgInputEmpty, MsgInputUnsafe}
        /\ (IsQuery(t) /\ ErrValidateOutput \in task[t].log) =>
              /\ task[t].pc \in {"add_lpush", "add_ltrim", "add_expire", "DONE"}
              /\ task[t].response \in OutputTexts
              /\ task[t].pc = "DONE" =>
                    /\ task[t].result.status = 200
                    /\ task[t].result.guardrails_passed = TRUE
                    /\ task[t].result.response = task[t].response

C20_Witness ==
    \E t \in Tasks :
        /\ IsQuery(t)
        /\ task[t].pc = "DONE"
        /\ task[t].query = "my password is 12345"
        /\ {ErrValidateInput, ErrValidateOutput} \subseteq task[t].log
        /\ task[t].result.response = "ssn 123-45-6789"
        /\ task[t].result.guardrails_passed = TRUE

(***************************************************************************)
(* C21.  As claimed: the failure indication a handler returns for an       *)
(* infrastructure failure (status 500) holds no part of the internal       *)
(* exception text, so two failures of one stage that differ only in that   *)
(* text are answered alike.                                                *)
(***************************************************************************)
C21_NoInternalText ==
    \A t \in Tasks :
        task[t].result.status = 500 =>
            \A i \in 1..Len(task[t].result.detail) :
                task[t].result.detail[i] \notin ExceptionTexts

(***************************************************************************)
(* C22.  As claimed: an upload that process_document rejects because the   *)
(* file is larger than the configured maximum or because its extracted     *)
(* text is empty or whitespace is answered with a 4xx status.              *)
(***************************************************************************)
C22_RejectedAsBadInput ==
    \A t \in Tasks :
        (task[t].op = "upload" /\ task[t].error \in {<<MsgFileSize>>, <<MsgNoText>>})
            => task[t].result.status \in 400..499

(***************************************************************************)
(* C23.  As claimed: a call of add_documents that returns has added its    *)
(* chunks to those already stored under the document id: the id then holds *)
(* as many more chunks as the call was given, and every chunk it held      *)
(* before is still stored with its content.                                *)
(***************************************************************************)
C23_UpsertAdds ==
    [][\A t \in Tasks :
          (task[t].op = "add_documents" /\ Moved(t, "execute", "returned")) =>
              LET before == ScanDocument(index, task[t].document_id)
                  after == ScanDocument(index', task[t].document_id)
              IN /\ Cardinality(after) = Cardinality(before) + Len(task[t].documents)
                 /\ \A key \in before : key \in after /\ index'[key] = index[key]]_vars

(***************************************************************************)
(* C24.  As claimed: a similarity_search that did not fail and was given a *)
(* score threshold (0 and negative values included) returns exactly the    *)
(* entries of the index reply whose similarity is at least the threshold,  *)
(* however few; given no threshold it returns every entry of the reply.    *)
(***************************************************************************)
C24_Searched(t) ==
    task[t].op = "similarity_search" /\ task[t].pc = "returned" /\ task[t].log = {}

C24_ThresholdExcludes ==
    \A t \in Tasks :
        C24_Searched(t) =>
            LET reply == task[t].reply
                found == task[t].context_docs
                passing == IF task[t].score_threshold = NoThreshold
                           THEN {i \in 1..Len(reply) : TRUE}
                           ELSE {i \in 1..Len(reply) :
                                   10 - reply[i].score >= task[t].score_threshold[1]}
            IN /\ Len(found) = Cardinality(passing)
               /\ task[t].score_threshold # NoThreshold =>
                     \A i \in 1..Len(found) :
                         found[i].metadata.score >= task[t].score_threshold[1]

(***************************************************************************)
(* C25.  A similarity_search with parameter k returns at most k chunks, in *)
(* descending order of similarity, each carrying as metadata score its     *)
(* similarity to the query (1 - cosine distance); every chunk it returns   *)
(* is stored, and a stored chunk it omitted although no threshold filtered *)
(* it out is no nearer to the query than any chunk returned.               *)
(***************************************************************************)
C25_Similarity(query, content) ==
    10 - CosineDistance(EmbeddingOf[query], EmbeddingOf[content])

C25_Returned(t, data) ==
    \E i \in 1..Len(task[t].context_docs) :
        /\ task[t].context_docs[i].page_content = data.content
        /\ task[t].context_docs[i].metadata.document_id = data.document_id

C25_TopKDescending ==
    \A t \in Tasks :
        (task[t].op = "similarity_search" /\ task[t].pc = "returned") =>
            LET found == task[t].context_docs
                query == task[t].query
            IN /\ Len(found) <= task[t].k
               /\ \A i, j \in 1..Len(found) :
                     i < j => found[i].metadata.score >= found[j].metadata.score
               /\ \A i \in 1..Len(found) :
                     /\ found[i].metadata.score =
                            C25_Similarity(query, found[i].page_content)
                     /\ \E key \in DOMAIN index :
                           /\ index[key].content = found[i].page_content
                           /\ index[key].document_id = found[i].metadata.document_id
                           /\ index[key].filename = found[i].metadata.filename
               /\ \A key \in DOMAIN index :
                     (/\ ~C25_Returned(t, index[key])
                      /\ task[t].score_threshold # NoThreshold =>
                            C25_Similarity(query, index[key].content)
                                >= task[t].score_threshold[1])
                        => \A i \in 1..Len(found) :
                              found[i].metadata.score
                                  >= C25_Similarity(query, index[key].content)

C25_Witness ==
    \E t \in Tasks :
        /\ task[t].op = "similarity_search"
        /\ task[t].pc = "returned"
        /\ task[t].k = 2
        /\ Cardinality(DOMAIN index) > 2
        /\ Len(task[t].context_docs) = 2
        /\ task[t].context_docs[1].metadata.score
               > task[t].context_docs[2].metadata.score
        /\ \E key \in DOMAIN index : ~C25_Returned(t, index[key])

(***************************************************************************)
(* C26.  delete_document is idempotent.  With no other call in flight, a   *)
(* call whose Redis commands did not fail returns True and leaves no chunk *)
(* of the id in the store, whether the id held chunks, had been deleted    *)
(* before or never existed; it touches no chunk of another id, and when    *)
(* the id holds no chunk the store is left as it was.  A call whose Redis  *)
(* command failed returns False and changes nothing.                       *)
(***************************************************************************)
C26_Returns(t) ==
    task[t].op = "delete_document" /\ task[t].pc # "returned"
        /\ task'[t].pc = "returned"

C26_DeleteIdempotent ==
    [][\A t \in Tasks :
          /\ C26_Returns(t) =>
                IF ErrDelete \in task'[t].log
                THEN task'[t].result.returned = FALSE /\ index' = index
                ELSE /\ task'[t].result.returned = TRUE
                     /\ ScanDocument(index', task[t].document_id) = {}
                     /\ DOMAIN index' = DOMAIN index
                                           \ ScanDocument(index, task[t].document_id)
                     /\ \A key \in DOMAIN index' : index'[key] = index[key]
                     /\ ScanDocument(index, task[t].document_id) = {}
                           => index' = index
          /\ (task[t].op = "delete_document" /\ task'[t].pc = "delete_keys")
                => index' = index]_vars

\* a second delete of "d1" has returned True: the store held d1 and d2, d1
\* is gone, the scan of this call found nothing and d2 is still stored
C26_Witness ==
    \E t \in Tasks :
        /\ task[t].op = "delete_document"
        /\ task[t].pc = "returned"
        /\ task[t].document_id = "d1"
        /\ task[t].keys = {}
        /\ task[t].result.returned = TRUE
        /\ ScanDocument(index, "d1") = {}
        /\ ScanDocument(index, "d2") # {}

(***************************************************************************)
(* C27.  The step that completes a successful upload of a file whose text  *)
(* the splitter cuts into n chunks leaves exactly n chunks stored under    *)
(* the upload's document id, at chunk_index 0..n-1 without gap or          *)
(* duplicate, each with its chunk of the text and total_chunks = n, and    *)
(* answers chunks_created = n.  The id is drawn fresh: it is none of the   *)
(* ids drawn before, so two uploads of one file get two ids.  A            *)
(* list_documents that did not fail reports, with no other call in         *)
(* flight, exactly one record per stored document id, with its filename    *)
(* and the number of its stored chunks.                                    *)
(***************************************************************************)
C27_Chunks(t) == split_text[FileInfo[task[t].file].text]

C27_Ingested(t) ==
    task[t].op = "upload" /\ task[t].pc # "DONE" /\ task'[t].pc = "DONE"
        /\ task'[t].result.status = 200

C27_Listed(t) ==
    task[t].op = "list_documents" /\ task'[t].pc = "DONE"
        /\ ErrList \notin task'[t].log

C27_IngestStoresDenseChunks ==
    [][\A t \in Tasks :
          /\ C27_Ingested(t) =>
                LET n == Len(C27_Chunks(t))
                    document_id == task[t].document_id
                IN /\ n > 0
                   /\ task'[t].result.chunks_created = n
                   /\ task'[t].result.document_id = document_id
                   /\ ScanDocument(index, document_id) = {}
                   /\ ScanDocument(index', document_id)
                          = {DocKey(document_id, i) : i \in 0..(n - 1)}
                   /\ \A i \in 0..(n - 1) :
                         LET data == index'[DocKey(document_id, i)]
                         IN /\ data.chunk_index = i
                            /\ data.document_id = document_id
                            /\ data.content = C27_Chunks(t)[i + 1]
                            /\ data.filename = task[t].file
                            /\ data.metadata.chunk_index = i
                            /\ data.metadata.total_chunks = n
                   /\ \A key \in DOMAIN index :
                         key \in DOMAIN index' /\ index'[key] = index[key]
          /\ (task[t].op = "upload" /\ task[t].pc = "file_read"
                 /\ task'[t].pc \in {"embed", "execute"}) =>
                /\ \A i \in 1..Len(uuids) : uuids[i] # task'[t].document_id
                /\ uuids' = Append(uuids, task'[t].document_id)
          /\ C27_Listed(t) =>
                LET body == task'[t].result.body
                IN /\ \A i, j \in 1..Len(body) :
                         body[i].document_id = body[j].document_id => i = j
                   /\ \A key \in DOMAIN index :
                         \E i \in 1..Len(body) :
                            /\ body[i].document_id = key[2]
                            /\ body[i].chunks
                                   = Cardinality(ScanDocument(index, key[2]))
                   /\ \A i \in 1..Len(body) :
                         ScanDocument(index, body[i].document_id) # {}]_vars

\* list_documents has reported two uploads of a.txt, each under its own id
\* with the three chunks of the text
C27_Witness ==
    \E t \in Tasks :
        /\ task[t].op = "list_documents"
        /\ task[t].pc = "DONE"
        /\ \E i, j \in 1..Len(task[t].result.body) :
              /\ task[t].result.body[i]
                     = [document_id |-> "u1", filename |-> "a.txt", chunks |-> 3]
              /\ task[t].result.body[j]
                     = [document_id |-> "u2", filename |-> "a.txt", chunks |-> 3]

(***************************************************************************)
(* C28.  An upload answers with status success only at the step where      *)
(* pipeline.execute() returned with the JSON.SET of every chunk of the     *)
(* document queued, every chunk embedded before, and then all its chunks   *)
(* are stored; an upload in which an embedding or the execute failed ends  *)
(* with an error (status 500) and never holds a success result or a        *)
(* chunks_created count.                                                   *)
(***************************************************************************)
C28_StorageFailed(t) ==
    task[t].op = "upload" /\ task[t].log \cap {ErrEmbedding, ErrAddDocuments} # {}

C28_NoPartialSuccess ==
    [][\A t \in Tasks :
          /\ (task'[t].op = "upload" /\ task'[t].result.status = 200
                 /\ task[t].result.status # 200) =>
                /\ task[t].pc = "execute"
                /\ task[t].log = {} /\ task'[t].log = {}
                /\ Len(task[t].pipeline) = Len(task[t].documents)
                /\ task'[t].result.chunks_created = Len(task[t].documents)
                /\ task'[t].result.state = "success"
                /\ \A i \in 1..Len(task[t].documents) :
                      /\ DocKey(task[t].document_id, i - 1) \in DOMAIN index'
                      /\ index'[DocKey(task[t].document_id, i - 1)].content
                             = task[t].documents[i].page_content
          /\ (task'[t] # task[t] /\ C28_StorageFailed(t)') =>
                /\ task'[t].pc = "ERROR"
                /\ task'[t].result.status = 500
                /\ task'[t].result.detail[1] = "Error processing document: "]_vars

\* an upload of a.txt ended with an error after its first chunk had been
\* embedded; none of its chunks is stored
C28_Witness ==
    \E t \in Tasks :
        /\ C28_StorageFailed(t)
        /\ task[t].pc = "ERROR"
        /\ ErrEmbedding \in task[t].log
        /\ Len(task[t].pipeline) > 0
        /\ Len(task[t].pipeline) < Len(task[t].documents)
        /\ ScanDocument(index, task[t].document_id) = {}

(***************************************************************************)
(* C29.  As claimed: the history part of the prompt holds whole exchanges  *)
(* only, a user turn followed by its assistant turn, newest last, and as   *)
(* many of them as the session holds up to the prompting cap.              *)
(***************************************************************************)
C29_Exchanges(history) == Len(history) \div 2

C29_WholeExchanges ==
    \A t \in Tasks :
        (task[t].op = "generate_response" /\ task[t].conversation_history # << >>) =>
            LET shown == task[t].chat_history
                history == task[t].conversation_history
            IN /\ Len(shown) % 2 = 0
               /\ C29_Exchanges(shown) = Min(history_window, C29_Exchanges(history))
               /\ \A i \in 1..Len(shown) :
                     /\ shown[i][1] = IF i % 2 = 1 THEN "USER" ELSE "ASSISTANT"
                     /\ shown[i][2] = history[Len(history) - Len(shown) + i].content

(***************************************************************************)
(* C30.  The reply of a request has no sources exactly when its retrieved  *)
(* context is empty, which is the case exactly when the input was blocked, *)
(* use_context was false, the search failed or the index held no chunk;    *)
(* otherwise sources is the metadata of the chunks of the context, one per *)
(* chunk and in their order, and these are the chunks, in that order, that *)
(* the prompt handed to the model held as its context.                     *)
(***************************************************************************)
C30_Replied(t) == IsQuery(t) /\ task[t].pc = "DONE"

C30_SourcesMatchContext ==
    \A t \in Tasks :
        C30_Replied(t) =>
            LET context == task[t].context_docs
                sources == task[t].result.sources
            IN /\ (sources = << >>) <=> (context = << >>)
               /\ (context = << >>) <=>
                     \/ ~task[t].guardrails_result.passed
                     \/ ~task[t].use_context
                     \/ ErrSearch \in task[t].log
                     \/ DOMAIN index = {}
               /\ context = << >> =>
                     task[t].prompt_context
                         \in {<< >>, <<"No additional context available.">>}
               /\ context # << >> =>
                     /\ Len(sources) = 1
                     /\ Len(sources[1]) = Len(context)
                     /\ Len(task[t].prompt_context) = Len(context)
                     /\ \A i \in 1..Len(context) :
                           /\ sources[1][i] = context[i].metadata
                           /\ task[t].prompt_context[i]
                                  = <<context[i].metadata.filename,
                                      context[i].page_content>>

C30_Witness ==
    \E t \in Tasks :
        /\ C30_Replied(t)
        /\ task[t].result.sources # << >>
        /\ Len(task[t].result.sources[1]) = 3
        /\ Len(task[t].prompt_context) = 3
        /\ task[t].result.sources[1][1].document_id = "d1"
        /\ task[t].result.sources[1][3].document_id = "d2"

(***************************************************************************)
(* C31.  The validators check in the order length, emptiness (input only), *)
(* blocked patterns, PII, and the first check that fails decides the       *)
(* verdict alone, when no internal error occurs.  An input over the length *)
(* bound gets the length message even when it is all whitespace; a blank   *)
(* input within the bound gets the emptiness message; an input that        *)
(* matches a blocked pattern gets the generic refusal and neither a        *)
(* warning nor PII types, whatever PII it holds.  An output is checked for *)
(* length, blocked patterns and PII in that order, and an empty output     *)
(* passes.                                                                 *)
(***************************************************************************)
C31_Unsafe(text) == TextInfo[text].blocked # {}

C31_OutputVerdict(t) ==
    /\ task[t].op = "validate_output"
    /\ task[t].output_guardrails # NoVerdict
    /\ ErrValidateOutput \notin task[t].log

C31_FirstFailingCheckDecides ==
    \A t \in Tasks :
        /\ (C18_InputVerdict(t) /\ task[t].op = "validate_input") =>
              LET text == task[t].query
                  verdict == task[t].guardrails_result
              IN IF TextLen(text) > max_input_length
                 THEN verdict = [passed |-> FALSE, message |-> MsgInputTooLong]
                 ELSE IF Strip(text) = ""
                 THEN verdict = [passed |-> FALSE, message |-> MsgInputEmpty]
                 ELSE IF C31_Unsafe(text)
                 THEN /\ verdict = [passed |-> FALSE, message |-> MsgInputUnsafe]
                      /\ DOMAIN verdict = {"passed", "message"}
                 ELSE /\ verdict.passed
                      /\ ("warning" \in DOMAIN verdict) <=> (TextInfo[text].pii # {})
        /\ C31_OutputVerdict(t) =>
              LET text == task[t].query
                  verdict == task[t].output_guardrails
              IN IF TextLen(text) > max_output_length
                 THEN verdict = [passed |-> FALSE, message |-> MsgOutputTooLong]
                 ELSE IF C31_Unsafe(text)
                 THEN verdict = [passed |-> FALSE, message |-> MsgOutputUnsafe]
                 ELSE IF TextInfo[text].pii # {}
                 THEN verdict = [passed |-> FALSE, message |-> MsgOutputPii]
                 ELSE verdict = [passed |-> TRUE]

\* validate_input has blocked an over-length text of whitespace with the
\* length message
C31_Witness ==
    \E t \in Tasks :
        /\ task[t].op = "validate_input"
        /\ C18_InputVerdict(t)
        /\ task[t].query = "LONG_BLANK"
        /\ Strip(task[t].query) = ""
        /\ task[t].guardrails_result.message = MsgInputTooLong

\* C32: turns of one session run interleaved, and no completed turn is lost.
\* Every push puts the turn's exchange in front of whatever the list holds at
\* that moment, every trim drops only what lies beyond the cap, and no other
\* step of a request changes the list.  So whenever no request of the session
\* stands between its push and its trim, and no trim failed, the window is
\* the newest min(pushed, cap) exchanges, newest first, each once, and the
\* exchange of every turn that completed its write was pushed exactly once.
C32_Trimmed(s) ==
    \A t \in Tasks : ~(task[t].session_id = s /\ task[t].pc = "add_ltrim")

C32_Count(x, xs) == Cardinality({i \in 1..Len(xs) : xs[i] = x})

C32_NoCompletedTurnLost ==
    /\ [](\A s \in Sessions : (C32_Trimmed(s) /\ ~dirty[s]) =>
            /\ Len(ShortList(s)) = Min(Len(hist[s]), max_short_term_messages)
            /\ ShortList(s) = Reversed(LastN(hist[s], max_short_term_messages))
            /\ \A i \in 1..Len(ShortList(s)) :
                  C32_Count(ShortList(s)[i], ShortList(s)) = 1)
    /\ [](\A t \in Tasks :
            (IsQuery(t) /\ task[t].pc = "DONE" /\ Occurs("MEMORY_WRITTEN", task[t].trace)
               /\ ErrShortAdd \notin task[t].log) =>
                C32_Count(task[t].message_pair, hist[task[t].session_id]) = 1)
    /\ [][\A t \in Tasks, s \in Sessions :
            (IsQuery(t) /\ task[t].session_id = s /\ task'[t] # task[t]) =>
               CASE Moved(t, "add_lpush", "add_ltrim") ->
                      ShortList(s)' = <<task'[t].message_pair>> \o ShortList(s)
                 [] Moved(t, "add_ltrim", "add_expire") ->
                      ShortList(s)' = SubSeq(ShortList(s), 1,
                                        Min(Len(ShortList(s)), max_short_term_messages))
                 [] OTHER -> ShortList(s)' = ShortList(s)]_vars

\* two requests of one session both pushed before either trimmed, on top of
\* an earlier exchange: the list is over the cap for the moment
C32_Witness ==
    /\ \A t \in Tasks : IsQuery(t) /\ task[t].session_id = "s1" /\ task[t].pc = "add_ltrim"
    /\ Len(ShortList("s1")) = max_short_term_messages + 1
    /\ Occurs(PriorPair, ShortList("s1"))

(***************************************************************************)
(* C33.  delete_document(d) removes only chunks whose document_id equals   *)
(* d: every step of a delete_document call leaves each stored chunk of     *)
(* every other document in the store, with its value unchanged, whatever   *)
(* characters the id d holds.                                              *)
(***************************************************************************)
C33_DeleteTouchesOnlyItsDocument ==
    [][\A t \in Tasks :
          (task[t].op = "delete_document" /\ task'[t] # task[t]) =>
              \A key \in DOMAIN index :
                  key[2] # task[t].document_id =>
                      key \in DOMAIN index' /\ index'[key] = index[key]]_vars

(***************************************************************************)
(* C34.  A listing that runs next to a delete_document(d) reports every    *)
(* other document that is stored all along, with its full chunk count.     *)
(* No call of this specification writes or deletes a chunk of document d2, *)
(* so a d2 that is in the store was there during the whole listing; a      *)
(* listing whose Redis commands all answered must then report d2 with the  *)
(* one chunk it has.                                                       *)
(***************************************************************************)
C34_Answered(t) ==
    /\ task[t].op = "list_documents"
    /\ task[t].pc = "DONE"
    /\ (ErrList \in task[t].log => task[t].error = <<AttributeErrorNone>>)

C34_ListingKeepsOtherDocuments ==
    \A t \in Tasks :
        (C34_Answered(t) /\ DocKey("d2", 0) \in DOMAIN index) =>
            \E i \in 1..Len(task[t].result.body) :
                /\ task[t].result.body[i].document_id = "d2"
                /\ task[t].result.body[i].chunks = 1

(***************************************************************************)
(* C35.  The chunks of a document are written all or none with respect to  *)
(* embedding failures.  No turn of the embedding loop changes the store; a *)
(* chunk enters the store only at the execute of a call whose chunks have  *)
(* all been embedded; an upload whose embedding of some chunk failed has   *)
(* none of its chunks stored, the earlier ones included; and a listing     *)
(* that did not fail reports only ids that hold a chunk in the store, so   *)
(* it does not report that document.                                       *)
(***************************************************************************)
C35_ChunksOf(idx, document_id) == {key \in DOMAIN idx : key[2] = document_id}

C35_EmbeddingFailed(t) ==
    task[t].op = "upload" /\ ErrEmbedding \in task[t].log

C35_AllOrNothingOnEmbedding ==
    /\ [][/\ \A t \in Tasks :
               (task[t].pc = "embed" /\ task'[t] # task[t]) => index' = index
          /\ \A key \in DOMAIN index' :
               (key \notin DOMAIN index \/ index'[key] # index[key]) =>
                   \E t \in Tasks :
                       /\ task[t].pc = "execute"
                       /\ task'[t] # task[t]
                       /\ key[2] = task[t].document_id
                       /\ Len(task[t].pipeline) = Len(task[t].documents)
                       /\ ErrEmbedding \notin task[t].log]_vars
    /\ [](\A t \in Tasks :
            C35_EmbeddingFailed(t) =>
                /\ task[t].pc = "ERROR"
                /\ C35_ChunksOf(index, task[t].document_id) = {})
    /\ [](\A t \in Tasks :
            (task[t].op = "list_documents" /\ task[t].pc = "DONE") =>
                \A i \in 1..Len(task[t].result.body) :
                    C35_ChunksOf(index, task[t].result.body[i].document_id) # {})

\* the embedding of the third chunk of a.txt failed after the first two had
\* been embedded and queued: the store holds other documents and no chunk of
\* this one
C35_Witness ==
    \E t \in Tasks :
        /\ C35_EmbeddingFailed(t)
        /\ task[t].file = "a.txt"
        /\ Len(task[t].pipeline) = 2
        /\ Len(task[t].documents) = 3
        /\ index # << >>
        /\ C35_ChunksOf(index, task[t].document_id) = {}

====
